---- MODULE Spec2Model ----
(***************************************************************************)
(* State-machine models of the orchestration scripts of THETIS:            *)
(*   - demos/demo_2d_north_sea.py          (specification SpecDemo)        *)
(*   - test/swe2d/test_rossby_wave.py      (specification SpecRossby)      *)
(*   - test/operations/test_2d-3d_operations.py (specification SpecOps)    *)
(*   - test/bottomFriction/test_implicit_friction_parabolic.py             *)
(*                                         (specification SpecFriction)    *)
(*   - examples/channel3d/channel3d.py     (specification SpecChannel)     *)
(*   - the asymptotic expansions of test_rossby_wave.py (SpecExpansion)    *)
(*   - the peak search of compute_error_metrics, per rank (SpecPeaks)      *)
(*   - the output directory of channel3d.py, per rank (SpecDirectory)      *)
(*   - the checkpoints of test_rossby_wave.py (SpecExchange)               *)
(* Every script has its own variables; a specification leaves the          *)
(* variables of the other scripts at their idle values.                    *)
(***************************************************************************)
EXTENDS Integers, Sequences, FiniteSets, TLC

VARIABLES
    \* ---- demo_2d_north_sea.py
    demo_pc,          \* position in the script (the line about to execute)
    environ,          \* os.environ restricted to the key "DATA"
    fs_dirs,          \* the paths that exist on the file system
    data_dir,         \* the script's variable data_dir
    consulted,        \* the paths handed to os.path.exists / the forcing object
    demo_events,      \* the solver and forcing calls made so far, in order
    tide_times,       \* the arguments of tbnd.set_tidal_field so far, in order
    simulation_time,  \* solver_obj.simulation_time
    iteration,        \* solver_obj.iteration
    demo_exc,         \* the exception that ended the script, or "none"
    stations_csv,     \* the rows of stations_elev.csv: name, latitude, longitude
    stations,         \* the dictionary read_station_data returned, in item order
    callbacks,        \* the callbacks handed to solver_obj.add_callback, in order
    stage,            \* the stage of the current time step that is solved next
    forcing_calls,    \* the arguments of the solver's update_forcings calls
    n_exports,        \* the exports solver_obj.iterate has made after its steps
    next_export_t,    \* the simulation time at which the next export is due
    \* ---- test_rossby_wave.py
    rc_pc,            \* position in run_convergence
    ref_list,         \* run_convergence's argument ref_list
    solve,            \* run_convergence's argument solve
    options,          \* run_convergence's keyword arguments **options
    comm_size,        \* mesh.comm.size
    outputs,          \* the checkpoints in 'outputs': file name -> stored elevation
    i_run,            \* index of the next level of "for r in ref_list: run(r)"
    i_lvl,            \* index of the next level of compute_error_metrics' loop
    fs_family,        \* compute_error_metrics' local variable family
    fs_degree,        \* compute_error_metrics' local variable degree
    metrics,          \* compute_error_metrics' dictionary metrics
    thetis_json,      \* the content of data/Thetis.json: <<>> or <<metrics>>
    rc_log,           \* the calls made so far, in order: <<name, argument>>
    expansions,       \* the asymptotic expansion calls so far, with arguments
    rc_exc,           \* the exception that ended run_convergence, or "none"
    \* ---- test_2d-3d_operations.py
    ops_pc,           \* "ready" while the operations test runs
    f2d,              \* a field on the 2D mesh: node -> components
    f3d,              \* a field on the extruded mesh: node -> level -> components
    f2d_before,       \* f2d as it was when the last copy was called
    f3d_before,       \* f3d as it was when the last copy was called
    last_call,        \* the last copy called and its useBottomValue
    \* ---- test_implicit_friction_parabolic.py
    fr_pc,            \* position in test_implicit_friction_parabolic
    do_assert,        \* the test's argument do_assert
    fr_it,            \* the passes of the time loop made so far
    uvw,              \* the extremes of the projected velocity, or NoVelocity
    fr_exc,           \* the exception that ended the test, or "none"
    \* ---- channel3d.py
    ch_pc,            \* position in the script
    commrank,         \* op2.MPI.comm.rank of this process
    ch_fs,            \* the file system: path -> "absent", "dir" or "file"
    ch_fs_before,     \* the file system when createDirectory was called
    outputDir,        \* the script's variable outputDir
    mesh_dt_min,      \* mesh_dt.dat.data.min()
    mesh2d_dt_min,    \* mesh2d_dt.dat.data.min()
    channel_dt,       \* the script's variable dt
    M_modesplit,      \* the script's variable M_modesplit
    channel_dt_2d,    \* the script's variable dt_2d, as the quotient num/den
    channel_t,        \* the script's variable t
    channel_i,        \* the script's variable i
    iExp,             \* the script's variable iExp
    channel_next_export_t,  \* the script's variable next_export_t
    ch_stage,         \* the statement of the loop body that runs next
    macro_steps,      \* the macro steps the 2D time stepper has made
    eta3d,            \* the macro step count of the 2D elevation copied to eta3d
    ch_log,           \* the calls of the loop bodies so far, in order
    ch_exports,       \* the exports so far, in order: exporter and field
    ch_export_log,    \* the exports of the loop: iExp, i, t and next_export_t
    ch_exc,           \* the exception that ended the script, or "none"
    \* ---- test_rossby_wave.py, the asymptotic expansions
    ex_order,         \* the argument order of both expansions
    ex_time,          \* the argument time of both expansions
    ex_amplitude,     \* the argument soliton_amplitude, in thousandths
    ex_uv,            \* the outcome of asymptotic_expansion_uv, or NotCalled
    ex_elev,          \* the outcome of asymptotic_expansion_elev, or NotCalled
    \* ---- test_rossby_wave.py, the peaks of compute_error_metrics
    pk_size,          \* mesh.comm.size
    ownership_range,  \* v.getOwnershipRanges(): index 0..size -> first row
    i_n,              \* the index of the northern maximum, from v.max()
    i_s,              \* the index of the southern minimum, from v.min()
    pk_pc,            \* rank -> position of that process
    rank_with_n_peak, \* rank -> its variable rank_with_n_peak
    rank_with_s_peak, \* rank -> its variable rank_with_s_peak
    x_n,              \* rank -> its variable x_n: <<>> for None, <<x>> for x
    x_s,              \* rank -> its variable x_s
    pk_reads,         \* rank -> the indices it has read from xdat
    pk_exc,           \* rank -> the exception that ended it, or "none"
    \* ---- channel3d.py, the output directory on every rank
    dr_size,          \* the number of MPI processes
    dr_fs,            \* the shared file system: path -> "absent", "dir" or "file"
    dr_pc,            \* rank -> position of that process
    dr_outputDir,     \* rank -> its variable outputDir
    dr_at_return,     \* rank -> what 'outputs' was when createDirectory returned
    dr_at_open,       \* rank -> what 'outputs' was when the rank opened bath.pvd
    dr_exc,           \* rank -> the exception that ended it, or "none"
    \* ---- test_rossby_wave.py, the checkpoints that run and
    \*      compute_error_metrics exchange
    xc_files,         \* the checkpoint files: path -> the elevation stored
    xc_last,          \* <<r, size>> -> the elevation run(r) stored last: <<>> or <<e>>
    xc_loaded         \* the last load: level, size, exception and elevation

\* The tide gauges and their callbacks.
stationVars == <<stations_csv, stations, callbacks>>

\* The bookkeeping of the time loop.
clockVars == <<stage, forcing_calls, n_exports, next_export_t>>

demoVars == <<demo_pc, environ, fs_dirs, data_dir, consulted, demo_events,
              tide_times, simulation_time, iteration, demo_exc, stationVars,
              clockVars>>

rossbyVars == <<rc_pc, ref_list, solve, options, comm_size, outputs, i_run, i_lvl,
                fs_family, fs_degree, metrics, thetis_json, rc_log, expansions,
                rc_exc>>

opsVars == <<ops_pc, f2d, f3d, f2d_before, f3d_before, last_call>>

frictionVars == <<fr_pc, do_assert, fr_it, uvw, fr_exc>>

channelVars == <<ch_pc, commrank, ch_fs, ch_fs_before, outputDir, mesh_dt_min,
                 mesh2d_dt_min, channel_dt, M_modesplit, channel_dt_2d, channel_t, channel_i, iExp,
                 channel_next_export_t, ch_stage, macro_steps, eta3d, ch_log,
                 ch_exports, ch_export_log, ch_exc>>

expansionVars == <<ex_order, ex_time, ex_amplitude, ex_uv, ex_elev>>

peakVars == <<pk_size, ownership_range, i_n, i_s, pk_pc, rank_with_n_peak,
              rank_with_s_peak, x_n, x_s, pk_reads, pk_exc>>

directoryVars == <<dr_size, dr_fs, dr_pc, dr_outputDir, dr_at_return, dr_at_open,
                   dr_exc>>

exchangeVars == <<xc_files, xc_last, xc_loaded>>

\* The variables a script leaves alone: those of the other scripts.
notDemo ==
    <<rossbyVars, opsVars, frictionVars, channelVars, expansionVars, peakVars,
      directoryVars, exchangeVars>>
notRossby ==
    <<demoVars, opsVars, frictionVars, channelVars, expansionVars, peakVars,
      directoryVars, exchangeVars>>
notOps ==
    <<demoVars, rossbyVars, frictionVars, channelVars, expansionVars, peakVars,
      directoryVars, exchangeVars>>
notFriction ==
    <<demoVars, rossbyVars, opsVars, channelVars, expansionVars, peakVars,
      directoryVars, exchangeVars>>
notChannel ==
    <<demoVars, rossbyVars, opsVars, frictionVars, expansionVars, peakVars,
      directoryVars, exchangeVars>>
notExpansion ==
    <<demoVars, rossbyVars, opsVars, frictionVars, channelVars, peakVars,
      directoryVars, exchangeVars>>
notPeaks ==
    <<demoVars, rossbyVars, opsVars, frictionVars, channelVars, expansionVars,
      directoryVars, exchangeVars>>
notDirectory ==
    <<demoVars, rossbyVars, opsVars, frictionVars, channelVars, expansionVars,
      peakVars, exchangeVars>>
notExchange ==
    <<demoVars, rossbyVars, opsVars, frictionVars, channelVars, expansionVars,
      peakVars, directoryVars>>

(***************************************************************************)
(* demo_2d_north_sea.py                                                    *)
(***************************************************************************)

\* Paths are strings, modelled as sequences of characters.
tpxo == <<"t", "p", "x", "o">>
DefaultData == <<".", "/", "d", "a", "t", "a">>

\* The values the environment variable DATA takes when it is set: the empty
\* string, an absolute directory without and with a trailing separator, and
\* a relative directory.
DataValues == { <<>>, <<"/", "d">>, <<"/", "d", "/">>, <<"d">> }

\* os.environ: a mapping whose domain holds "DATA" exactly when it is set.
Environs == { [k \in {} |-> <<>>] } \cup { [k \in {"DATA"} |-> v] : v \in DataValues }

\* Variant of EnvironGet that takes an empty value for an unset one
\* (os.environ.get(key) or default).
EnvironGetOrDefault(env, key, default) ==
    IF key \in DOMAIN env /\ env[key] # <<>> THEN env[key] ELSE default

\* os.environ.get(key, default)
EnvironGet(env, key, default) ==
    IF key \in DOMAIN env THEN env[key] ELSE default

\* posixpath.join(a, b)
PathJoin(a, b) ==
    IF b # <<>> /\ b[1] = "/" THEN b
    ELSE IF a = <<>> \/ a[Len(a)] = "/" THEN a \o b
    ELSE a \o <<"/">> \o b

\* The directories the file system may hold: every location the script can
\* compute, present or absent.
CandidateDirs == { PathJoin(d, tpxo) : d \in DataValues \cup {DefaultData} }

\* os.path.exists(path)
PathExists(fs, path) == path \in fs

\* Simulation window and time step (seconds).
start_day == 15
end_day == 18
dt == 3600
t_export == 3600

\* datetime.datetime(2022, 1, 15, tzinfo=sim_tz) and (2022, 1, 18, ...): both
\* in UTC, at 00:00:00.
start_date == [year |-> 2022, month |-> 1, day |-> start_day, second |-> 0]
end_date == [year |-> 2022, month |-> 1, day |-> end_day, second |-> 0]

\* The proleptic Gregorian ordinal of a date (datetime.toordinal).
IsLeap(y) == y % 4 = 0 /\ (y % 100 # 0 \/ y % 400 = 0)

DaysBeforeYear(y) ==
    (y - 1) * 365 + ((y - 1) \div 4) - ((y - 1) \div 100) + ((y - 1) \div 400)

DaysBeforeMonth(y, m) ==
    <<0, 31, 59, 90, 120, 151, 181, 212, 243, 273, 304, 334>>[m]
        + (IF m > 2 /\ IsLeap(y) THEN 1 ELSE 0)

ToOrdinal(d) == DaysBeforeYear(d.year) + DaysBeforeMonth(d.year, d.month) + d.day

\* Variant of TotalSeconds that counts the end day as part of the window.
TotalSecondsInclusive(a, b) ==
    (ToOrdinal(a) - ToOrdinal(b) + 1) * 86400 + (a.second - b.second)

\* (a - b).total_seconds() for two datetimes of the same time zone.
TotalSeconds(a, b) ==
    (ToOrdinal(a) - ToOrdinal(b)) * 86400 + (a.second - b.second)

t_end == TotalSeconds(end_date, start_date)

\* The stage times of DIRK22 within a step, in thousandths of the time step:
\* gamma = 1 - sqrt(2)/2 and 1.
dirk22_c == <<293, 1000>>

\* The time the solver hands to update_forcings for a stage of the step that
\* starts at t.
StageTime(t, k) == t + (dirk22_c[k] * dt) \div 1000

\* The rows of stations_elev.csv: at most MaxStations gauges, each with a
\* name, a latitude and a longitude (degrees).
MaxStations == 2

StationNames == {"A", "B"}
StationPositions == { [latitude |-> 51, longitude |-> 1],
                      [latitude |-> 53, longitude |-> 4] }
StationRows ==
    { [name |-> n, latitude |-> q.latitude, longitude |-> q.longitude] :
        n \in StationNames, q \in StationPositions }
StationFiles == UNION { [1..n -> StationRows] : n \in 0..MaxStations }

\* d[k] = v for a dictionary kept as the sequence of its items: a key that
\* is present keeps its place and takes the new value.
DictSet(d, k, v) ==
    IF \E i \in 1..Len(d) : d[i][1] = k
    THEN [i \in 1..Len(d) |-> IF d[i][1] = k THEN <<k, v>> ELSE d[i]]
    ELSE Append(d, <<k, v>>)

\* The dictionary comprehension of read_station_data over the rows from i on.
RECURSIVE StationDict(_, _, _)
StationDict(rows, i, d) ==
    IF i > Len(rows) THEN d
    ELSE StationDict(rows, i + 1,
                     DictSet(d, rows[i].name, <<rows[i].latitude, rows[i].longitude>>))

\* read_station_data()
read_station_data(rows) == StationDict(rows, 1, <<>>)

\* trans.transform(lon, lat): longitude and latitude (degrees) to easting
\* and northing in UTM zone 30 (kilometres, central meridian 3 W).
Transform(lon, lat) == <<500 + 64 * (lon + 3), 111 * lat>>

\* The export bookkeeping of the solver: the first export after the clock is
\* reset to t is due one export interval later, and an export is due when
\* the simulation time has reached the time of the next export.
NextExportTime(t) == t + t_export
ExportDue(time, next_t) == time >= next_t

DemoInit ==
    /\ demo_pc = "create_equations"
    /\ environ \in Environs
    /\ fs_dirs \in SUBSET CandidateDirs
    /\ data_dir = <<>>
    /\ consulted = <<>>
    /\ demo_events = <<>>
    /\ tide_times = <<>>
    /\ simulation_time = 0
    /\ iteration = 0
    /\ demo_exc = "none"
    /\ stations_csv \in StationFiles
    /\ stations = <<>>
    /\ callbacks = <<>>
    /\ stage = 1
    /\ forcing_calls = <<>>
    /\ n_exports = 0
    /\ next_export_t = 0

\* The state of the demo when another script is the one running.
DemoIdle ==
    /\ demo_pc = "idle"
    /\ environ = [k \in {} |-> <<>>]
    /\ fs_dirs = {}
    /\ data_dir = <<>>
    /\ consulted = <<>>
    /\ demo_events = <<>>
    /\ tide_times = <<>>
    /\ simulation_time = 0
    /\ iteration = 0
    /\ demo_exc = "none"
    /\ stations_csv = <<>>
    /\ stations = <<>>
    /\ callbacks = <<>>
    /\ stage = 1
    /\ forcing_calls = <<>>
    /\ n_exports = 0
    /\ next_export_t = 0

\* solver_obj.create_equations()
CreateEquations ==
    /\ demo_pc = "create_equations"
    /\ demo_events' = Append(demo_events, "create_equations")
    /\ demo_pc' = "read_station_data"
    /\ UNCHANGED <<notDemo, stationVars, clockVars, environ, fs_dirs, data_dir, consulted, tide_times,
                   simulation_time, iteration, demo_exc>>

\* read_station_data().items(): the dictionary the loop at line 145 runs over.
ReadStationData ==
    /\ demo_pc = "read_station_data"
    /\ stations' = read_station_data(stations_csv)
    /\ demo_pc' = "add_callback"
    /\ UNCHANGED <<notDemo, clockVars, environ, fs_dirs, data_dir, consulted,
                   demo_events, tide_times, simulation_time, iteration, demo_exc,
                   stations_csv, callbacks>>

\* Variant of StationCallback that hands latitude and longitude to the
\* transformer in the other order.
StationCallbackLatLon(item) ==
    LET name == item[1]
        sta_lat == item[2][1]
        sta_lon == item[2][2]
        xy == Transform(sta_lat, sta_lon)
    IN  [fields |-> <<"elev_2d">>, x |-> xy[1], y |-> xy[2], name |-> name]

\* sta_x, sta_y = trans.transform(sta_lon, sta_lat);
\* cb = TimeSeriesCallback2D(solver_obj, ["elev_2d"], sta_x, sta_y, name, ...)
StationCallback(item) ==
    LET name == item[1]
        sta_lat == item[2][1]
        sta_lon == item[2][2]
        xy == Transform(sta_lon, sta_lat)
    IN  [fields |-> <<"elev_2d">>, x |-> xy[1], y |-> xy[2], name |-> name]

\* One pass of "for name, (sta_lat, sta_lon) in read_station_data().items()":
\* the callback of the next item is built and added to the solver.
AddCallback ==
    /\ demo_pc = "add_callback"
    /\ Len(callbacks) < Len(stations)
    /\ callbacks' = Append(callbacks, StationCallback(stations[Len(callbacks) + 1]))
    /\ demo_events' = Append(demo_events, "add_callback")
    /\ UNCHANGED <<notDemo, clockVars, demo_pc, environ, fs_dirs, data_dir,
                   consulted, tide_times, simulation_time, iteration, demo_exc,
                   stations_csv, stations>>

\* The loop over the tide gauges is exhausted.
CallbacksDone ==
    /\ demo_pc = "add_callback"
    /\ Len(callbacks) = Len(stations)
    /\ demo_pc' = "data_dir"
    /\ UNCHANGED <<notDemo, stationVars, clockVars, environ, fs_dirs, data_dir,
                   consulted, demo_events, tide_times, simulation_time, iteration,
                   demo_exc>>

\* Variant of ComputeDataDir that falls back to ./data for an empty DATA.
ComputeDataDirNoEmpty ==
    /\ demo_pc = "data_dir"
    /\ data_dir' = PathJoin(EnvironGetOrDefault(environ, "DATA", DefaultData), tpxo)
    /\ demo_pc' = "exists"
    /\ UNCHANGED <<notDemo, stationVars, clockVars, environ, fs_dirs, consulted, demo_events,
                   tide_times, simulation_time, iteration, demo_exc>>

\* data_dir = os.path.join(os.environ.get("DATA", "./data"), "tpxo")
ComputeDataDir ==
    /\ demo_pc = "data_dir"
    /\ data_dir' = PathJoin(EnvironGet(environ, "DATA", DefaultData), tpxo)
    /\ demo_pc' = "exists"
    /\ UNCHANGED <<notDemo, stationVars, clockVars, environ, fs_dirs, consulted, demo_events,
                   tide_times, simulation_time, iteration, demo_exc>>

\* Variant of CheckDataDir that goes on without raising.
CheckDataDirNoRaise ==
    /\ demo_pc = "exists"
    /\ consulted' = Append(consulted, data_dir)
    /\ demo_pc' = "forcing"
    /\ UNCHANGED <<notDemo, stationVars, clockVars, environ, fs_dirs, data_dir, demo_events,
                   tide_times, simulation_time, iteration, demo_exc>>

\* if not os.path.exists(data_dir): raise IOError(...)
CheckDataDir ==
    /\ demo_pc = "exists"
    /\ consulted' = Append(consulted, data_dir)
    /\ IF PathExists(fs_dirs, data_dir)
       THEN /\ demo_pc' = "forcing"
            /\ demo_exc' = demo_exc
       ELSE /\ demo_pc' = "raised"
            /\ demo_exc' = "IOError"
    /\ UNCHANGED <<notDemo, stationVars, clockVars, environ, fs_dirs, data_dir, demo_events,
                   tide_times, simulation_time, iteration>>

\* tbnd = forcing.TPXOTidalBoundaryForcing(..., data_dir=data_dir, ...)
BuildForcing ==
    /\ demo_pc = "forcing"
    /\ consulted' = Append(consulted, data_dir)
    /\ demo_events' = Append(demo_events, "TPXOTidalBoundaryForcing")
    /\ demo_pc' = "set_tidal_field"
    /\ UNCHANGED <<notDemo, stationVars, clockVars, environ, fs_dirs, data_dir, tide_times,
                   simulation_time, iteration, demo_exc>>

\* tbnd.set_tidal_field(0.0)
SetInitialTide ==
    /\ demo_pc = "set_tidal_field"
    /\ tide_times' = Append(tide_times, 0)
    /\ demo_pc' = "bnd_functions"
    /\ UNCHANGED <<notDemo, stationVars, clockVars, environ, fs_dirs, data_dir, consulted, demo_events,
                   simulation_time, iteration, demo_exc>>

\* solver_obj.bnd_functions["shallow_water"] = {...}
SetBoundary ==
    /\ demo_pc = "bnd_functions"
    /\ demo_events' = Append(demo_events, "bnd_functions")
    /\ demo_pc' = "load_state"
    /\ UNCHANGED <<notDemo, stationVars, clockVars, environ, fs_dirs, data_dir, consulted, tide_times,
                   simulation_time, iteration, demo_exc>>

\* solver_obj.load_state(14, outputdir="outputs_spinup", t=0, iteration=0):
\* the spun-up fields are loaded and the clock is reset.
LoadState ==
    /\ demo_pc = "load_state"
    /\ demo_events' = Append(demo_events, "load_state")
    /\ simulation_time' = 0
    /\ iteration' = 0
    /\ next_export_t' = NextExportTime(0)
    /\ demo_pc' = "iterate"
    /\ UNCHANGED <<notDemo, stationVars, environ, fs_dirs, data_dir, consulted,
                   tide_times, demo_exc, stage, forcing_calls, n_exports>>

\* Variant of update_forcings that sets the tide of the solver's clock.
update_forcingsAtClock(t) == tide_times' = Append(tide_times, simulation_time)

\* def update_forcings(t): tbnd.set_tidal_field(t)
update_forcings(t) == tide_times' = Append(tide_times, t)

\* solver_obj.iterate(update_forcings=update_forcings): the time integrator
\* solves the next stage of the current step and calls update_forcings with
\* the time of that stage first.
SolveStage ==
    /\ demo_pc = "iterate"
    /\ simulation_time < t_end
    /\ stage <= Len(dirk22_c)
    /\ update_forcings(StageTime(simulation_time, stage))
    /\ forcing_calls' = Append(forcing_calls, StageTime(simulation_time, stage))
    /\ stage' = stage + 1
    /\ demo_events' = IF iteration = 0 /\ stage = 1 THEN Append(demo_events, "iterate")
                      ELSE demo_events
    /\ UNCHANGED <<notDemo, stationVars, demo_pc, environ, fs_dirs, data_dir,
                   consulted, simulation_time, iteration, demo_exc, n_exports,
                   next_export_t>>

\* solver_obj.iterate: the stages of the step are solved, the clock moves on
\* by one time step and the fields are exported when an export is due.
TimeStep ==
    /\ demo_pc = "iterate"
    /\ simulation_time < t_end
    /\ stage > Len(dirk22_c)
    /\ stage' = 1
    /\ iteration' = iteration + 1
    /\ simulation_time' = (iteration + 1) * dt
    /\ IF ExportDue(simulation_time', next_export_t)
       THEN /\ n_exports' = n_exports + 1
            /\ next_export_t' = next_export_t + t_export
       ELSE UNCHANGED <<n_exports, next_export_t>>
    /\ UNCHANGED <<notDemo, stationVars, demo_pc, environ, fs_dirs, data_dir,
                   consulted, demo_events, tide_times, demo_exc, forcing_calls>>

\* solver_obj.iterate returns once the end time is reached.
IterateDone ==
    /\ demo_pc = "iterate"
    /\ simulation_time >= t_end
    /\ demo_pc' = "done"
    /\ UNCHANGED <<notDemo, stationVars, clockVars, environ, fs_dirs, data_dir,
                   consulted, demo_events, tide_times, simulation_time, iteration,
                   demo_exc>>

DemoNext ==
    \/ CreateEquations
    \/ ReadStationData
    \/ AddCallback
    \/ CallbacksDone
    \/ ComputeDataDir
    \/ CheckDataDir
    \/ BuildForcing
    \/ SetInitialTide
    \/ SetBoundary
    \/ LoadState
    \/ SolveStage
    \/ TimeStep
    \/ IterateDone

(***************************************************************************)
(* test_rossby_wave.py                                                     *)
(***************************************************************************)

\* The longest ref_list the model runs.
MaxRefs == 3

\* The refinement levels a ref_list is drawn from.
RefLevels == {12, 24, 48}

\* Python's None.
None == "None"

\* Simulated time of one run, and the default arguments of the asymptotic
\* expansions (soliton_amplitude in thousandths).
T == 120
default_time == 0
soliton_amplitude == 395

\* slope_rtol = 0.01, in hundredths.
slope_rtol == 1

\* The keys of the dictionary metrics that hold error metrics, in the order
\* in which compute_error_metrics appends and run_convergence checks them.
MetricOrder == <<"h+", "h-", "c+", "c-", "rms">>
MetricNames == {"h+", "h-", "c+", "c-", "rms"}

\* A stored elevation field is represented by the error metrics that the
\* projection onto the reference mesh measures on it (positive, scaled to
\* integers).  Two fields: a less and a more accurate one.
ElevSamples == { [m \in MetricNames |-> 1], [m \in MetricNames |-> 2] }

\* The mesh communicator sizes.
CommSizes == {1}

\* "{:d}".format(n) for n >= 0: the decimal digits of n.
Digit(d) == <<"0", "1", "2", "3", "4", "5", "6", "7", "8", "9">>[d + 1]

RECURSIVE FormatD(_)
FormatD(n) == IF n < 10 THEN <<Digit(n)>> ELSE FormatD(n \div 10) \o <<Digit(n % 10)>>

\* Variant of Fname without the separator between level and size.
FnameNoSeparator(r, size) == FormatD(r) \o FormatD(size)

\* fname = "{:d}_{:d}".format(r, mesh.comm.size)
Fname(r, size) == FormatD(r) \o <<"_">> \o FormatD(size)

FileNames == { Fname(r, n) : r \in RefLevels, n \in CommSizes }

\* The keyword arguments: expansion_order and polynomial_degree are given,
\* element_family is one of the recognised pairs, another pair, or absent.
Families == {"dg-dg", "rt-dg", "dg-cg", "cg-cg"}
OptionSets ==
    { [expansion_order |-> o, polynomial_degree |-> d, element_family |-> f] :
        o \in 0..2, d \in 1..2, f \in Families }
    \cup { [expansion_order |-> o, polynomial_degree |-> d] : o \in 0..2, d \in 1..2 }

\* options.get(key)
OptionsGet(opts, key) == IF key \in DOMAIN opts THEN opts[key] ELSE None

RefLists == UNION { [1..n -> RefLevels] : n \in 0..MaxRefs }

Checkpoints == UNION { [D -> ElevSamples] : D \in SUBSET FileNames }

NoMetrics == [m \in MetricNames \cup {"dx", "dt"} |-> <<>>]

RossbyInit ==
    /\ rc_pc = "start"
    /\ ref_list \in RefLists
    /\ solve \in BOOLEAN
    /\ options \in OptionSets
    /\ comm_size \in CommSizes
    /\ outputs \in Checkpoints
    /\ i_run = 1
    /\ i_lvl = 1
    /\ fs_family = None
    /\ fs_degree = 0
    /\ metrics = NoMetrics
    /\ thetis_json = <<>>
    /\ rc_log = <<>>
    /\ expansions = <<>>
    /\ rc_exc = "none"

\* The state of the Rossby test when another script is the one running.
RossbyIdle ==
    /\ rc_pc = "idle"
    /\ ref_list = <<>>
    /\ solve = FALSE
    /\ options = [expansion_order |-> 1, polynomial_degree |-> 1]
    /\ comm_size = 1
    /\ outputs = <<>>
    /\ i_run = 1
    /\ i_lvl = 1
    /\ fs_family = None
    /\ fs_degree = 0
    /\ metrics = NoMetrics
    /\ thetis_json = <<>>
    /\ rc_log = <<>>
    /\ expansions = <<>>
    /\ rc_exc = "none"

\* "if order != 0: assert order == 1" of both asymptotic expansions.
OrderAccepted(order) == order = 0 \/ order = 1

\* uv_a = asymptotic_expansion_uv(solver_obj.function_spaces.U_2d, order=order)
InitialUvCall(order) ==
    [site |-> "run", fn |-> "uv", order |-> order, time |-> default_time,
     amplitude |-> soliton_amplitude]

\* elev_a = asymptotic_expansion_elev(solver_obj.function_spaces.H_2d, order=order)
InitialElevCall(order) ==
    [site |-> "run", fn |-> "elev", order |-> order, time |-> default_time,
     amplitude |-> soliton_amplitude]

\* Variant of ReferenceElevCall that evaluates the expansion at the final time.
ReferenceElevCallAtFinalTime(order) ==
    [site |-> "compute", fn |-> "elev", order |-> order, time |-> T,
     amplitude |-> soliton_amplitude]

\* elev_a = asymptotic_expansion_elev(P1_2d_ref, order=order)
ReferenceElevCall(order) ==
    [site |-> "compute", fn |-> "elev", order |-> order, time |-> default_time,
     amplitude |-> soliton_amplitude]

\* Variant of StartConvergence that runs the model whatever solve says.
StartConvergenceAlwaysSolve ==
    /\ rc_pc = "start"
    /\ rc_pc' = "solve"
    /\ i_run' = 1
    /\ UNCHANGED <<notRossby, ref_list, solve, options, comm_size, outputs, i_lvl,
                   fs_family, fs_degree, metrics, thetis_json, rc_log,
                   expansions, rc_exc>>

\* if solve: ... (run_convergence)
StartConvergence ==
    /\ rc_pc = "start"
    /\ rc_pc' = IF solve THEN "solve" ELSE "compute"
    /\ i_run' = 1
    /\ UNCHANGED <<notRossby, ref_list, solve, options, comm_size, outputs, i_lvl,
                   fs_family, fs_degree, metrics, thetis_json, rc_log,
                   expansions, rc_exc>>

\* run(r, **options) for the next r of ref_list: the initial conditions are
\* the asymptotic expansions, the solver iterates to T and the final
\* elevation is stored in the checkpoint "<r>_<comm.size>".  The elevation
\* the solver ends with is any of the sample fields.  What the solver makes
\* of the other options (options.update) is the solver's business and is
\* not modelled.
RunLevel ==
    /\ rc_pc = "solve"
    /\ i_run <= Len(ref_list)
    /\ LET r == ref_list[i_run]
           order == options.expansion_order
       IN  IF ~OrderAccepted(order)
           THEN /\ rc_log' = Append(rc_log, <<"run", r>>)
                /\ expansions' = Append(expansions, InitialUvCall(order))
                /\ rc_pc' = "raised"
                /\ rc_exc' = "AssertionError"
                /\ UNCHANGED <<outputs, i_run>>
           ELSE /\ \E e \in ElevSamples :
                      outputs' = [f \in DOMAIN outputs \cup {Fname(r, comm_size)} |->
                                    IF f = Fname(r, comm_size) THEN e ELSE outputs[f]]
                /\ rc_log' = rc_log \o <<<<"run", r>>, <<"iterate", T>>, <<"store", r>>>>
                /\ expansions' = expansions \o <<InitialUvCall(order), InitialElevCall(order)>>
                /\ i_run' = i_run + 1
                /\ UNCHANGED <<rc_pc, rc_exc>>
    /\ UNCHANGED <<notRossby, ref_list, solve, options, comm_size, i_lvl, fs_family,
                   fs_degree, metrics, thetis_json>>

\* The loop over ref_list is exhausted.
SolveDone ==
    /\ rc_pc = "solve"
    /\ i_run > Len(ref_list)
    /\ rc_pc' = "compute"
    /\ UNCHANGED <<notRossby, ref_list, solve, options, comm_size, outputs, i_run,
                   i_lvl, fs_family, fs_degree, metrics, thetis_json, rc_log,
                   expansions, rc_exc>>

\* "Element pair {:s} not recognised.".format(family): formatting with the
\* presentation type s is defined for strings and raises TypeError for None.
FormatError(family) == IF family = None THEN "TypeError" ELSE "none"

\* The exception leaving the else branch of the family selection.
UnrecognisedPair(family) ==
    IF FormatError(family) # "none" THEN FormatError(family) ELSE "ValueError"

\* The family selection of compute_error_metrics.
FunctionSpaceOf(family, degree) ==
    IF family \in {"dg-dg", "rt-dg"}
    THEN [exc |-> "none", family |-> "Discontinuous Lagrange", degree |-> degree]
    ELSE IF family = "dg-cg"
    THEN [exc |-> "none", family |-> "Lagrange", degree |-> degree + 1]
    ELSE [exc |-> UnrecognisedPair(family), family |-> family, degree |-> degree]

\* compute_error_metrics, up to the family selection.
ComputeBegin ==
    /\ rc_pc = "compute"
    /\ rc_log' = Append(rc_log, <<"compute", 0>>)
    /\ LET fs == FunctionSpaceOf(OptionsGet(options, "element_family"),
                                 OptionsGet(options, "polynomial_degree"))
       IN  /\ fs_family' = fs.family
           /\ fs_degree' = fs.degree
           /\ rc_exc' = fs.exc
           /\ rc_pc' = IF fs.exc = "none" THEN "reference" ELSE "raised"
    /\ UNCHANGED <<notRossby, ref_list, solve, options, comm_size, outputs, i_run,
                   i_lvl, metrics, thetis_json, expansions>>

\* compute_error_metrics: the reference mesh, the reference elevation and the
\* dictionary metrics with dx = 24/r and dt = 0.96/r (dt in hundredths).
BuildReference ==
    /\ rc_pc = "reference"
    /\ rc_log' = Append(rc_log, <<"ref_mesh", 0>>)
    /\ expansions' = Append(expansions, ReferenceElevCall(options.expansion_order))
    /\ IF OrderAccepted(options.expansion_order)
       THEN /\ metrics' = [m \in DOMAIN NoMetrics |->
                             IF m = "dx" THEN [k \in 1..Len(ref_list) |-> 24 \div ref_list[k]]
                             ELSE IF m = "dt" THEN [k \in 1..Len(ref_list) |-> 96 \div ref_list[k]]
                             ELSE <<>>]
            /\ i_lvl' = 1
            /\ rc_pc' = "levels"
            /\ UNCHANGED rc_exc
       ELSE /\ rc_pc' = "raised"
            /\ rc_exc' = "AssertionError"
            /\ UNCHANGED <<metrics, i_lvl>>
    /\ UNCHANGED <<notRossby, ref_list, solve, options, comm_size, outputs, i_run,
                   fs_family, fs_degree, thetis_json>>

\* The error metrics measured on a loaded elevation field.
ErrorMetricsOf(elev) == [m \in MetricNames |-> elev[m]]

\* metrics[metric].append(value) for the five metrics.
AppendMetrics(mt, values) ==
    [m \in DOMAIN mt |-> IF m \in MetricNames THEN Append(mt[m], values[m]) ELSE mt[m]]

\* Variant of LoadLevel that leaves the loop at the first missing checkpoint.
LoadLevelBreak ==
    /\ rc_pc = "levels"
    /\ i_lvl <= Len(ref_list)
    /\ LET r == ref_list[i_lvl]
           fname == Fname(r, comm_size)
       IN  IF fname \in DOMAIN outputs
           THEN /\ rc_log' = rc_log \o <<<<"mesh", r>>, <<"load", r>>>>
                /\ metrics' = AppendMetrics(metrics, ErrorMetricsOf(outputs[fname]))
                /\ i_lvl' = i_lvl + 1
           ELSE /\ rc_log' = rc_log \o <<<<"mesh", r>>, <<"load", r>>, <<"warning", r>>>>
                /\ i_lvl' = Len(ref_list) + 1
                /\ UNCHANGED metrics
    /\ UNCHANGED <<notRossby, rc_pc, ref_list, solve, options, comm_size, outputs,
                   i_run, fs_family, fs_degree, thetis_json, expansions, rc_exc>>

\* One pass of "for r in ref_list" in compute_error_metrics: the mesh of
\* level r, the checkpoint load, and either the warning and continue or the
\* metrics of the level.
LoadLevel ==
    /\ rc_pc = "levels"
    /\ i_lvl <= Len(ref_list)
    /\ LET r == ref_list[i_lvl]
           fname == Fname(r, comm_size)
       IN  IF fname \in DOMAIN outputs
           THEN /\ rc_log' = rc_log \o <<<<"mesh", r>>, <<"load", r>>>>
                /\ metrics' = AppendMetrics(metrics, ErrorMetricsOf(outputs[fname]))
           ELSE /\ rc_log' = rc_log \o <<<<"mesh", r>>, <<"load", r>>, <<"warning", r>>>>
                /\ UNCHANGED metrics
    /\ i_lvl' = i_lvl + 1
    /\ UNCHANGED <<notRossby, rc_pc, ref_list, solve, options, comm_size, outputs,
                   i_run, fs_family, fs_degree, thetis_json, expansions, rc_exc>>

\* return metrics
ComputeReturn ==
    /\ rc_pc = "levels"
    /\ i_lvl > Len(ref_list)
    /\ rc_log' = Append(rc_log, <<"compute_done", 0>>)
    /\ rc_pc' = "json"
    /\ UNCHANGED <<notRossby, ref_list, solve, options, comm_size, outputs, i_run,
                   i_lvl, fs_family, fs_degree, metrics, thetis_json, expansions,
                   rc_exc>>

\* json.dump(metrics, f) into data/Thetis.json
WriteJson ==
    /\ rc_pc = "json"
    /\ thetis_json' = <<metrics>>
    /\ rc_log' = Append(rc_log, <<"json", 0>>)
    /\ rc_pc' = "assert"
    /\ UNCHANGED <<notRossby, ref_list, solve, options, comm_size, outputs, i_run,
                   i_lvl, fs_family, fs_degree, metrics, expansions, rc_exc>>

\* slope > 1.0 - slope_rtol for slope = num/den with den > 0.
SlopeOK(num, den) == 100 * num > (100 - slope_rtol) * den

\* The slope test of metric m at Python index i (entries i and i+1 here).
SlopeOfOK(mt, m, i) ==
    IF m = "rms" THEN SlopeOK(mt[m][i], mt[m][i + 1])
    ELSE SlopeOK(mt[m][i + 1], mt[m][i])

\* The convergence loops from metric number k, index i on: the exception
\* that ends them, or "none".
RECURSIVE CheckFrom(_, _, _, _)
CheckFrom(mt, n, k, i) ==
    IF k > Len(MetricOrder) THEN "none"
    ELSE IF i > n - 1 THEN CheckFrom(mt, n, k + 1, 1)
    ELSE IF Len(mt[MetricOrder[k]]) < i + 1 THEN "IndexError"
    ELSE IF ~SlopeOfOK(mt, MetricOrder[k], i) THEN "AssertionError"
    ELSE CheckFrom(mt, n, k, i + 1)

\* The convergence checks of run_convergence.
CheckConvergence ==
    /\ rc_pc = "assert"
    /\ rc_log' = Append(rc_log, <<"assert", 0>>)
    /\ rc_exc' = CheckFrom(metrics, Len(ref_list), 1, 1)
    /\ rc_pc' = IF rc_exc' = "none" THEN "done" ELSE "raised"
    /\ UNCHANGED <<notRossby, ref_list, solve, options, comm_size, outputs, i_run,
                   i_lvl, fs_family, fs_degree, metrics, thetis_json, expansions>>

RossbyNext ==
    \/ StartConvergence
    \/ RunLevel
    \/ SolveDone
    \/ ComputeBegin
    \/ BuildReference
    \/ LoadLevel
    \/ ComputeReturn
    \/ WriteJson
    \/ CheckConvergence

(***************************************************************************)
(* test_rossby_wave.py: asymptotic_expansion_uv, asymptotic_expansion_elev *)
(***************************************************************************)

\* Speeds are counted in units of 1/(3 * 10^9): -1.0/3.0 is -SpeedScale, and
\* 0.395*B*B is 1185 * b * b for B = b/1000.
SpeedScale == 1000 * 1000 * 1000

\* modon_propagation_speed = -1.0/3.0
BaseSpeed == 0 - SpeedScale

\* 0.395*B*B
SpeedCorrection(b) == 1185 * b * b

\* The arguments the expansions are called with.
OrderSamples == (0 - 1)..3
TimeSamples == {0, 60, 120}
AmplitudeSamples == {0, 395, 500}

\* The length of the list of Hermite polynomials: range(2, 28) after two
\* entries.
HermiteCount == 28

\* Polynomials in y are kept as their coefficients of y^0 .. y^27, each
\* reduced modulo CoefficientModulus: the coefficients of H_27 are wider than
\* the integers of the checker, and a prime above 27 keeps n! invertible.
CoefficientModulus == 46337

Reduce(x) == ((x % CoefficientModulus) + CoefficientModulus) % CoefficientModulus

\* Constant(c)
PolyConstant(c) == [k \in 0..(HermiteCount - 1) |-> IF k = 0 THEN Reduce(c) ELSE 0]

\* 2*y*p
PolyTimes2y(p) ==
    [k \in 0..(HermiteCount - 1) |-> IF k = 0 THEN 0 ELSE Reduce(2 * p[k - 1])]

\* c*p
PolyScale(c, p) == [k \in 0..(HermiteCount - 1) |-> Reduce(c * p[k])]

\* p - q
PolyMinus(p, q) == [k \in 0..(HermiteCount - 1) |-> Reduce(p[k] - q[k])]

\* Variant of HermiteAppend with the factor 2*i instead of 2*(i-1).
HermiteAppendFactorI(polynomials, i) ==
    Append(polynomials,
           PolyMinus(PolyTimes2y(polynomials[(i - 1) + 1]),
                     PolyScale(2 * i, polynomials[(i - 2) + 1])))

\* polynomials.append(2*y*polynomials[i-1] - 2*(i-1)*polynomials[i-2]); the
\* entry i of the Python list is the entry i + 1 of the sequence.
HermiteAppend(polynomials, i) ==
    Append(polynomials,
           PolyMinus(PolyTimes2y(polynomials[(i - 1) + 1]),
                     PolyScale(2 * (i - 1), polynomials[(i - 2) + 1])))

\* "for i in range(2, 28)" from i on.
RECURSIVE HermiteLoop(_, _)
HermiteLoop(polynomials, i) ==
    IF i >= HermiteCount THEN polynomials
    ELSE HermiteLoop(HermiteAppend(polynomials, i), i + 1)

\* The list "polynomials" of asymptotic_expansion_uv
UvPolynomials == HermiteLoop(<<PolyConstant(1), PolyTimes2y(PolyConstant(1))>>, 2)

\* The list "polynomials" of asymptotic_expansion_elev
ElevPolynomials == HermiteLoop(<<PolyConstant(1), PolyTimes2y(PolyConstant(1))>>, 2)

NotCalled == [exc |-> "not called", c |-> 0, terms |-> {}, polynomials |-> <<>>]

\* The zeroth-order and the first-order terms of the two expansions.
UvZerothTerms == {"u:phi*0.25*(-9+6yy)*psi", "v:2y*dphidx*psi"}
UvFirstTerms ==
    {"u:C*phi*0.5625*(3+2yy)*psi", "u:phi*phi*psi*hermite(u)",
     "v:dphidx*phi*psi*hermite(v)"}
ElevZerothTerms == {"eta:phi*0.25*(3+6yy)*psi"}
ElevFirstTerms == {"eta:C*phi*0.5625*(-5+2yy)*psi", "eta:phi*phi*psi*hermite(eta)"}

\* asymptotic_expansion_uv(U_2d, order, time, soliton_amplitude): the
\* exception raised or "none", the propagation speed and the terms returned.
asymptotic_expansion_uv(order, time, b) ==
    IF order # 0 /\ ~(order = 1)
    THEN [exc |-> "AssertionError", c |-> 0, terms |-> {}, polynomials |-> <<>>]
    ELSE LET c == IF order # 0 THEN BaseSpeed - SpeedCorrection(b) ELSE BaseSpeed
         IN  IF order = 0
             THEN [exc |-> "none", c |-> c, terms |-> UvZerothTerms,
                   polynomials |-> <<>>]
             ELSE [exc |-> "none", c |-> c, terms |-> UvZerothTerms \cup UvFirstTerms,
                   polynomials |-> UvPolynomials]

\* Variant of asymptotic_expansion_elev without the assertion on order.
asymptotic_expansion_elevNoAssert(order, time, b) ==
    LET c == IF order # 0 THEN BaseSpeed - SpeedCorrection(b) ELSE BaseSpeed
    IN  IF order = 0
        THEN [exc |-> "none", c |-> c, terms |-> ElevZerothTerms,
              polynomials |-> <<>>]
        ELSE [exc |-> "none", c |-> c, terms |-> ElevZerothTerms \cup ElevFirstTerms,
              polynomials |-> ElevPolynomials]

\* asymptotic_expansion_elev(H_2d, order, time, soliton_amplitude)
asymptotic_expansion_elev(order, time, b) ==
    IF order # 0 /\ ~(order = 1)
    THEN [exc |-> "AssertionError", c |-> 0, terms |-> {}, polynomials |-> <<>>]
    ELSE LET c == IF order # 0 THEN BaseSpeed - SpeedCorrection(b) ELSE BaseSpeed
         IN  IF order = 0
             THEN [exc |-> "none", c |-> c, terms |-> ElevZerothTerms,
                   polynomials |-> <<>>]
             ELSE [exc |-> "none", c |-> c, terms |-> ElevZerothTerms \cup ElevFirstTerms,
                   polynomials |-> ElevPolynomials]

ExpansionInit ==
    /\ ex_order \in OrderSamples
    /\ ex_time \in TimeSamples
    /\ ex_amplitude \in AmplitudeSamples
    /\ ex_uv = NotCalled
    /\ ex_elev = NotCalled

\* The state of the expansions when another script is the one running.
ExpansionIdle ==
    /\ ex_order = 1
    /\ ex_time = 0
    /\ ex_amplitude = 0
    /\ ex_uv = NotCalled
    /\ ex_elev = NotCalled

\* A call of asymptotic_expansion_uv
CallExpansionUv ==
    /\ ex_uv = NotCalled
    /\ ex_uv' = asymptotic_expansion_uv(ex_order, ex_time, ex_amplitude)
    /\ UNCHANGED <<notExpansion, ex_order, ex_time, ex_amplitude, ex_elev>>

\* A call of asymptotic_expansion_elev
CallExpansionElev ==
    /\ ex_elev = NotCalled
    /\ ex_elev' = asymptotic_expansion_elev(ex_order, ex_time, ex_amplitude)
    /\ UNCHANGED <<notExpansion, ex_order, ex_time, ex_amplitude, ex_uv>>

ExpansionNext ==
    \/ CallExpansionUv
    \/ CallExpansionElev

(***************************************************************************)
(* test_rossby_wave.py: the peaks of compute_error_metrics, on every rank  *)
(***************************************************************************)

\* The most processes and the most rows of the vector the model runs.
MaxRanks == 3
MaxDofs == 3

\* A variable that has not been assigned.
Unassigned == 0 - 1

\* The ranks of a communicator of the given size.
RanksOf(size) == 0..(size - 1)

\* The ownership ranges of a vector of n rows on size processes: the first
\* row of every rank, then n; a rank may own no row.
OwnershipRanges(size, n) ==
    { f \in [0..size -> 0..n] :
        /\ f[0] = 0
        /\ f[size] = n
        /\ \A j \in 0..(size - 1) : f[j] <= f[j + 1] }

\* The x-coordinate stored in row i of xcoords.
XAt(i) == 3 * i - 4

\* Variant of OwnerLoop that does not take the first row of a range as owned.
RECURSIVE OwnerLoopStrict(_, _, _)
OwnerLoopStrict(idx, j, found) ==
    IF j >= pk_size THEN found
    ELSE OwnerLoopStrict(idx, j + 1,
            IF idx > ownership_range[j] /\ idx < ownership_range[j + 1]
            THEN j ELSE found)

\* "for j in range(mesh.comm.size)" from j on: the rank assigned last, or
\* what was found before.
RECURSIVE OwnerLoop(_, _, _)
OwnerLoop(idx, j, found) ==
    IF j >= pk_size THEN found
    ELSE OwnerLoop(idx, j + 1,
            IF idx >= ownership_range[j] /\ idx < ownership_range[j + 1]
            THEN j ELSE found)

\* The rows the process of rank r owns.
OwnedRows(r) == { i \in 0..MaxDofs + 1 : ownership_range[r] <= i /\ i < ownership_range[r + 1] }

PeaksInit ==
    /\ pk_size \in 1..MaxRanks
    /\ \E n \in 1..MaxDofs :
          /\ ownership_range \in OwnershipRanges(pk_size, n)
          /\ i_n \in 0..(n - 1)
          /\ i_s \in 0..(n - 1)
    /\ pk_pc = [r \in RanksOf(pk_size) |-> "owners"]
    /\ rank_with_n_peak = [r \in RanksOf(pk_size) |-> Unassigned]
    /\ rank_with_s_peak = [r \in RanksOf(pk_size) |-> Unassigned]
    /\ x_n = [r \in RanksOf(pk_size) |-> <<>>]
    /\ x_s = [r \in RanksOf(pk_size) |-> <<>>]
    /\ pk_reads = [r \in RanksOf(pk_size) |-> {}]
    /\ pk_exc = [r \in RanksOf(pk_size) |-> "none"]

\* The state of the peak search when another script is the one running.
PeaksIdle ==
    /\ pk_size = 0
    /\ ownership_range = [j \in {0} |-> 0]
    /\ i_n = 0
    /\ i_s = 0
    /\ pk_pc = <<>>
    /\ rank_with_n_peak = <<>>
    /\ rank_with_s_peak = <<>>
    /\ x_n = <<>>
    /\ x_s = <<>>
    /\ pk_reads = <<>>
    /\ pk_exc = <<>>

\* "Find ranks which own peaks" on the process of rank r.
FindPeakOwners(r) ==
    /\ pk_pc[r] = "owners"
    /\ rank_with_n_peak' = [rank_with_n_peak EXCEPT ![r] = OwnerLoop(i_n, 0, @)]
    /\ rank_with_s_peak' = [rank_with_s_peak EXCEPT ![r] = OwnerLoop(i_s, 0, @)]
    /\ pk_pc' = [pk_pc EXCEPT ![r] = "read"]
    /\ UNCHANGED <<notPeaks, pk_size, ownership_range, i_n, i_s, x_n, x_s, pk_reads,
                   pk_exc>>

\* The exception of lines 265-268 on rank r, or "none": a rank variable
\* that was never assigned, or a row of xdat that the process does not own.
ReadError(r) ==
    IF rank_with_n_peak[r] = Unassigned THEN "UnboundLocalError"
    ELSE IF r = rank_with_n_peak[r] /\ i_n \notin OwnedRows(r) THEN "PETSc.Error"
    ELSE IF rank_with_s_peak[r] = Unassigned THEN "UnboundLocalError"
    ELSE IF r = rank_with_s_peak[r] /\ i_s \notin OwnedRows(r) THEN "PETSc.Error"
    ELSE "none"

\* x_n, x_s = None, None; then xdat[i_n] and xdat[i_s] on the ranks that the
\* variables name.
ReadPeakCoordinates(r) ==
    /\ pk_pc[r] = "read"
    /\ IF ReadError(r) # "none"
       THEN /\ pk_exc' = [pk_exc EXCEPT ![r] = ReadError(r)]
            /\ pk_pc' = [pk_pc EXCEPT ![r] = "raised"]
            /\ UNCHANGED <<x_n, x_s, pk_reads>>
       ELSE /\ x_n' = [x_n EXCEPT ![r] =
                         IF r = rank_with_n_peak[r] THEN <<XAt(i_n)>> ELSE <<>>]
            /\ x_s' = [x_s EXCEPT ![r] =
                         IF r = rank_with_s_peak[r] THEN <<XAt(i_s)>> ELSE <<>>]
            /\ pk_reads' = [pk_reads EXCEPT ![r] =
                              (IF r = rank_with_n_peak[r] THEN {i_n} ELSE {})
                              \cup (IF r = rank_with_s_peak[r] THEN {i_s} ELSE {})]
            /\ pk_pc' = [pk_pc EXCEPT ![r] = "bcast_n"]
            /\ UNCHANGED pk_exc
    /\ UNCHANGED <<notPeaks, pk_size, ownership_range, i_n, i_s, rank_with_n_peak,
                   rank_with_s_peak>>

\* x_n = mesh.comm.bcast(x_n, root=rank_with_n_peak): the collective
\* completes once every process has called it, and every process receives
\* the value of its root.
BcastN ==
    /\ pk_size > 0
    /\ \A r \in RanksOf(pk_size) : pk_pc[r] = "bcast_n"
    /\ x_n' = [r \in RanksOf(pk_size) |-> x_n[rank_with_n_peak[r]]]
    /\ pk_pc' = [r \in RanksOf(pk_size) |-> "bcast_s"]
    /\ UNCHANGED <<notPeaks, pk_size, ownership_range, i_n, i_s, rank_with_n_peak,
                   rank_with_s_peak, x_s, pk_reads, pk_exc>>

\* x_s = mesh.comm.bcast(x_s, root=rank_with_s_peak)
BcastS ==
    /\ pk_size > 0
    /\ \A r \in RanksOf(pk_size) : pk_pc[r] = "bcast_s"
    /\ x_s' = [r \in RanksOf(pk_size) |-> x_s[rank_with_s_peak[r]]]
    /\ pk_pc' = [r \in RanksOf(pk_size) |-> "done"]
    /\ UNCHANGED <<notPeaks, pk_size, ownership_range, i_n, i_s, rank_with_n_peak,
                   rank_with_s_peak, x_n, pk_reads, pk_exc>>

PeaksNext ==
    \/ \E r \in RanksOf(pk_size) : FindPeakOwners(r)
    \/ \E r \in RanksOf(pk_size) : ReadPeakCoordinates(r)
    \/ BcastN
    \/ BcastS

(***************************************************************************)
(* test_2d-3d_operations.py and the copy operations of cofs.utility        *)
(***************************************************************************)

\* The horizontal nodes of the 2D mesh and the nodes of one column of the
\* extruded mesh.
NCols == 2
NLevels == 2

Cols == 1..NCols
Levels == 1..NLevels

\* ExtrudedMesh(mesh2d, layers, layer_height=-0.1): the first node of a
\* column lies at the surface z = 0 and every further node one layer lower.
zcoord(l) == 0 - (l - 1)

\* The values the scalar expressions of createSpaces take at the nodes.
FieldValues == {0, 1}

\* The fields of createSpaces: a scalar pair (c2d, c3d) or a vector pair
\* (uv2d, uv3d); the third component of the 3D vector varies with x[2].
Field2d(isVec, s2) ==
    [c \in Cols |-> IF isVec THEN <<s2[c], 2 * s2[c] + 4>> ELSE <<s2[c]>>]

Field3d(isVec, s3) ==
    [c \in Cols |-> [l \in Levels |->
        IF isVec THEN <<s3[c][l], 2 * s3[c][l] + 4, 3 * zcoord(l) + 6>>
        ELSE <<s3[c][l]>>]]

NoCall == [fn |-> "none", useBottomValue |-> FALSE]

OpsInit ==
    /\ ops_pc = "ready"
    /\ \E isVec \in BOOLEAN :
         /\ \E s2 \in [Cols -> FieldValues] : f2d = Field2d(isVec, s2)
         /\ \E s3 \in [Cols -> [Levels -> FieldValues]] : f3d = Field3d(isVec, s3)
    /\ f2d_before = f2d
    /\ f3d_before = f3d
    /\ last_call = NoCall

\* The state of the operations test when another script is the one running.
OpsIdle ==
    /\ ops_pc = "idle"
    /\ f2d = <<>>
    /\ f3d = <<>>
    /\ f2d_before = <<>>
    /\ f3d_before = <<>>
    /\ last_call = NoCall

\* Variant of copy2dFieldTo3d that writes the surface nodes only.
copy2dFieldTo3dSurfaceOnly(g2, g3) ==
    [c \in DOMAIN g3 |-> [l \in DOMAIN g3[c] |-> [j \in DOMAIN g3[c][l] |->
        IF j \in DOMAIN g2[c] /\ l = 1 THEN g2[c][j] ELSE g3[c][l][j]]]]

\* copy2dFieldTo3d(f2d, f3d): the new content of the 3D field.
copy2dFieldTo3d(g2, g3) ==
    [c \in DOMAIN g3 |-> [l \in DOMAIN g3[c] |-> [j \in DOMAIN g3[c][l] |->
        IF j \in DOMAIN g2[c] THEN g2[c][j] ELSE g3[c][l][j]]]]

\* Variant of copy3dFieldTo2d that reads the surface node whatever
\* useBottomValue says.
copy3dFieldTo2dSurfaceOnly(g3, g2, useBottomValue) ==
    [c \in DOMAIN g2 |-> [j \in DOMAIN g2[c] |-> g3[c][1][j]]]

\* Variant of copy3dFieldTo2d that reads every value from the first column.
copy3dFieldTo2dFirstColumn(g3, g2, useBottomValue) ==
    [c \in DOMAIN g2 |-> [j \in DOMAIN g2[c] |->
        g3[1][IF useBottomValue THEN Len(g3[1]) ELSE 1][j]]]

\* copy3dFieldTo2d(f3d, f2d, useBottomValue): the new content of the 2D field.
copy3dFieldTo2d(g3, g2, useBottomValue) ==
    [c \in DOMAIN g2 |-> [j \in DOMAIN g2[c] |->
        g3[c][IF useBottomValue THEN Len(g3[c]) ELSE 1][j]]]

\* copy2dFieldTo3d(self.c2d, self.c3d)
CallCopy2dFieldTo3d ==
    /\ ops_pc = "ready"
    /\ f3d' = copy2dFieldTo3d(f2d, f3d)
    /\ f2d' = f2d
    /\ f2d_before' = f2d
    /\ f3d_before' = f3d
    /\ last_call' = [fn |-> "copy2dFieldTo3d", useBottomValue |-> FALSE]
    /\ UNCHANGED <<notOps, ops_pc>>

\* copy3dFieldTo2d(self.c3d, self.c2d, useBottomValue=...)
CallCopy3dFieldTo2d ==
    /\ ops_pc = "ready"
    /\ \E b \in BOOLEAN :
         /\ f2d' = copy3dFieldTo2d(f3d, f2d, b)
         /\ last_call' = [fn |-> "copy3dFieldTo2d", useBottomValue |-> b]
    /\ f3d' = f3d
    /\ f2d_before' = f2d
    /\ f3d_before' = f3d
    /\ UNCHANGED <<notOps, ops_pc>>

OpsNext ==
    \/ CallCopy2dFieldTo3d
    \/ CallCopy3dFieldTo2d

(***************************************************************************)
(* test_implicit_friction_parabolic.py                                     *)
(***************************************************************************)

\* dt = 3600.0 and t_end = 10 * 3600.0 (seconds).
friction_dt == 3600
friction_t_end == 10 * 3600

\* int(np.round(a / b)) for positive integers a and b: the nearest integer,
\* the even one of two that are equally near.
RoundDiv(a, b) ==
    LET q == a \div b
        r == a % b
    IN  IF 2 * r < b THEN q
        ELSE IF 2 * r > b THEN q + 1
        ELSE IF q % 2 = 0 THEN q ELSE q + 1

n_steps == RoundDiv(friction_t_end, friction_dt)

\* The targets of the assertions: u in thousandths of m/s, the bound on v
\* and w in units of 1e-7 m/s.
target_u_min == 500
target_u_max == 900
target_u_tol == 50
target_zero == 10

\* Floating-point values: a number, or nan.
Float(x) == [nan |-> FALSE, v |-> x]
NaN == [nan |-> TRUE, v |-> 0]

\* The extremes of the projected velocity that the assertions read: w_max and
\* v_max are maxima of absolute values (units of 1e-7), u_min and u_max the
\* least and the greatest u (thousandths); a nan among the values of a
\* component makes its extremes nan.
ZeroSamples == {Float(0), Float(9), Float(10), NaN}
UMinSamples == {Float(x) : x \in {449, 450, 451, 500, 549, 550}}
UMaxSamples == {Float(x) : x \in {850, 851, 900, 949, 950, 951}}
VelocitySamples ==
    { [w_max |-> w, v_max |-> v, u_min |-> a, u_max |-> b] :
        w \in ZeroSamples, v \in ZeroSamples, a \in UMinSamples, b \in UMaxSamples }
    \cup { [w_max |-> w, v_max |-> v, u_min |-> NaN, u_max |-> NaN] :
        w \in ZeroSamples, v \in ZeroSamples }

NoVelocity == [w_max |-> NaN, v_max |-> NaN, u_min |-> NaN, u_max |-> NaN, unset |-> TRUE]

\* a < b for floating-point values: false when either is nan.
FloatLess(a, b) == ~a.nan /\ ~b.nan /\ a.v < b.v

\* np.abs(a - b) for floating-point values.
FloatAbsDiff(a, b) ==
    IF a.nan \/ b.nan THEN NaN
    ELSE IF a.v >= b.v THEN Float(a.v - b.v) ELSE Float(b.v - a.v)

FrictionInit ==
    /\ fr_pc = "loop"
    /\ do_assert \in BOOLEAN
    /\ fr_it = 0
    /\ uvw = NoVelocity
    /\ fr_exc = "none"

\* The state of the friction test when another script is the one running.
FrictionIdle ==
    /\ fr_pc = "idle"
    /\ do_assert = FALSE
    /\ fr_it = 0
    /\ uvw = NoVelocity
    /\ fr_exc = "none"

\* One pass of "for it in range(n_steps)": friction, viscosity, one
\* backward-Euler step and the exports; an exception of the solvers is
\* raised again and ends the test.
FrictionStep ==
    /\ fr_pc = "loop"
    /\ fr_it < n_steps
    /\ \/ /\ fr_it' = fr_it + 1
          /\ UNCHANGED <<fr_pc, fr_exc>>
       \/ /\ fr_pc' = "raised"
          /\ fr_exc' = "Exception"
          /\ UNCHANGED fr_it
    /\ UNCHANGED <<notFriction, do_assert, uvw>>

\* The loop is exhausted: "if do_assert:".
FrictionLoopDone ==
    /\ fr_pc = "loop"
    /\ fr_it >= n_steps
    /\ fr_pc' = IF do_assert THEN "project" ELSE "done"
    /\ UNCHANGED <<notFriction, do_assert, fr_it, uvw, fr_exc>>

\* solution_p1_dg.project(s.fields.uv_3d); uvw = solution_p1_dg.dat.data
ProjectVelocity ==
    /\ fr_pc = "project"
    /\ uvw' \in VelocitySamples
    /\ fr_pc' = "assert"
    /\ UNCHANGED <<notFriction, do_assert, fr_it, fr_exc>>

\* Variant of FrictionAsserts without the assertion on the greatest u.
FrictionAssertsNoUMax(st) ==
    IF ~FloatLess(st.w_max, Float(target_zero)) THEN "AssertionError"
    ELSE IF ~FloatLess(st.v_max, Float(target_zero)) THEN "AssertionError"
    ELSE IF ~FloatLess(FloatAbsDiff(st.u_min, Float(target_u_min)),
                      Float(target_u_tol))
    THEN "AssertionError"
    ELSE "none"

\* The four assert statements, in order: the exception of the first that
\* fails, or "none".
FrictionAsserts(st) ==
    IF ~FloatLess(st.w_max, Float(target_zero)) THEN "AssertionError"
    ELSE IF ~FloatLess(st.v_max, Float(target_zero)) THEN "AssertionError"
    ELSE IF ~FloatLess(FloatAbsDiff(st.u_min, Float(target_u_min)),
                      Float(target_u_tol))
    THEN "AssertionError"
    ELSE IF ~FloatLess(FloatAbsDiff(st.u_max, Float(target_u_max)),
                      Float(target_u_tol))
    THEN "AssertionError"
    ELSE "none"

\* The assertions on w_max, v_max, u_min and u_max.
CheckVelocity ==
    /\ fr_pc = "assert"
    /\ fr_exc' = FrictionAsserts(uvw)
    /\ fr_pc' = IF fr_exc' = "none" THEN "done" ELSE "raised"
    /\ UNCHANGED <<notFriction, do_assert, fr_it, uvw>>

FrictionNext ==
    \/ FrictionStep
    \/ FrictionLoopDone
    \/ ProjectVelocity
    \/ CheckVelocity

(***************************************************************************)
(* channel3d.py                                                            *)
(***************************************************************************)

\* T = 2 * 24 * 3600 and TExport = 80.0 (seconds).
channel_T == 2 * 24 * 3600
TExport == 80

\* The paths of the file system, and what a path may be.
FsPaths == {"outputs", "other"}
FsKinds == {"absent", "dir", "file"}

\* The MPI ranks of the run.
CommRanks == {0, 1}

\* The least advective time steps of the 3D and of the 2D mesh (seconds):
\* coarse meshes, for which the time loop is short, meshes whose 3D step is
\* below the export interval (40 s and 50 s), and a mesh so fine that its
\* advective time step is below 20 s.
MeshDtSamples == {10, 20 * 40, 20 * 50 + 3, 20 * 57600 + 7, 20 * 86400, 20 * 172800 + 19}

\* The most passes of the time loop the model follows.
MaxPasses == 6
Mesh2dDtSamples == {20 * 19200, 20 * 28800 + 10, 20 * 86400}

\* numpy's floor and ceil of the quotient a / b of positive integers.
FloorDiv(a, b) == a \div b
CeilDiv(a, b) == (a + b - 1) \div b

\* The quotient a / b of two numbers, kept exact.
Quotient(a, b) == [num |-> a, den |-> b]

\* os.path.exists(path) and os.path.isdir(path)
OsPathExists(fs, path) == fs[path] # "absent"
OsPathIsdir(fs, path) == fs[path] = "dir"

\* os.makedirs(path) for a path that does not exist
OsMakedirs(fs, path) == [fs EXCEPT ![path] = "dir"]

\* Variant of createDirectory that takes whatever exists for the directory.
createDirectoryNoIsdir(rank, fs, path) ==
    IF rank = 0 /\ ~OsPathExists(fs, path)
    THEN [exc |-> "none", fs |-> OsMakedirs(fs, path), ret |-> path]
    ELSE [exc |-> "none", fs |-> fs, ret |-> path]

\* createDirectory(path) on the process of the given rank: the exception
\* raised or "none", the file system it leaves and the value it returns.
createDirectory(rank, fs, path) ==
    IF rank = 0
    THEN IF OsPathExists(fs, path)
         THEN IF ~OsPathIsdir(fs, path)
              THEN [exc |-> "Exception", fs |-> fs, ret |-> None]
              ELSE [exc |-> "none", fs |-> fs, ret |-> path]
         ELSE [exc |-> "none", fs |-> OsMakedirs(fs, path), ret |-> path]
    ELSE [exc |-> "none", fs |-> fs, ret |-> path]

ChannelInit ==
    /\ ch_pc = "createDirectory"
    /\ commrank \in CommRanks
    /\ ch_fs \in [FsPaths -> FsKinds]
    /\ ch_fs_before = ch_fs
    /\ outputDir = None
    /\ mesh_dt_min \in MeshDtSamples
    /\ mesh2d_dt_min \in Mesh2dDtSamples
    /\ channel_dt = 0
    /\ M_modesplit = 0
    /\ channel_dt_2d = Quotient(0, 1)
    /\ channel_t = 0
    /\ channel_i = 0
    /\ iExp = 0
    /\ channel_next_export_t = 0
    /\ ch_stage = 0
    /\ macro_steps = 0
    /\ eta3d = 0
    /\ ch_log = <<>>
    /\ ch_exports = <<>>
    /\ ch_export_log = <<>>
    /\ ch_exc = "none"

\* The state of channel3d.py when another script is the one running.
ChannelIdle ==
    /\ ch_pc = "idle"
    /\ commrank = 0
    /\ ch_fs = [q \in FsPaths |-> "absent"]
    /\ ch_fs_before = ch_fs
    /\ outputDir = None
    /\ mesh_dt_min = 0
    /\ mesh2d_dt_min = 0
    /\ channel_dt = 0
    /\ M_modesplit = 0
    /\ channel_dt_2d = Quotient(0, 1)
    /\ channel_t = 0
    /\ channel_i = 0
    /\ iExp = 0
    /\ channel_next_export_t = 0
    /\ ch_stage = 0
    /\ macro_steps = 0
    /\ eta3d = 0
    /\ ch_log = <<>>
    /\ ch_exports = <<>>
    /\ ch_export_log = <<>>
    /\ ch_exc = "none"

\* outputDir = createDirectory('outputs')
CallCreateDirectory ==
    /\ ch_pc = "createDirectory"
    /\ LET res == createDirectory(commrank, ch_fs, "outputs")
       IN  /\ ch_fs_before' = ch_fs
           /\ ch_fs' = res.fs
           /\ outputDir' = res.ret
           /\ ch_exc' = res.exc
           /\ ch_pc' = IF res.exc = "none" THEN "time_steps" ELSE "raised"
    /\ UNCHANGED <<notChannel, commrank, mesh_dt_min, mesh2d_dt_min, channel_dt,
                   M_modesplit, channel_dt_2d, channel_t, channel_i, iExp,
                   channel_next_export_t, ch_stage, macro_steps, eta3d, ch_log,
                   ch_exports, ch_export_log>>

\* float(dt/M_modesplit): the division of a float by the integer 0 raises
\* ZeroDivisionError.
AdjustedDt2d(step, m) ==
    IF m = 0 THEN [exc |-> "ZeroDivisionError", value |-> Quotient(0, 1)]
    ELSE [exc |-> "none", value |-> Quotient(step, m)]

\* dt = float(np.floor(mesh_dt.dat.data.min()/20.0));
\* dt_2d = mesh2d_dt.dat.data.min()/20.0; M_modesplit = int(np.ceil(dt/dt_2d));
\* dt_2d = float(dt/M_modesplit)
ComputeTimeSteps ==
    /\ ch_pc = "time_steps"
    /\ channel_dt' = FloorDiv(mesh_dt_min, 20)
    /\ M_modesplit' = CeilDiv(20 * channel_dt', mesh2d_dt_min)
    /\ LET adjusted == AdjustedDt2d(channel_dt', M_modesplit')
       IN  IF adjusted.exc # "none"
           THEN /\ channel_dt_2d' = Quotient(mesh2d_dt_min, 20)
                /\ ch_exc' = adjusted.exc
                /\ ch_pc' = "raised"
           ELSE /\ channel_dt_2d' = adjusted.value
                /\ ch_exc' = ch_exc
                /\ ch_pc' = "initial_conditions"
    /\ UNCHANGED <<notChannel, commrank, ch_fs, ch_fs_before, outputDir, mesh_dt_min,
                   mesh2d_dt_min, channel_t, channel_i, iExp, channel_next_export_t,
                   ch_stage, macro_steps, eta3d, ch_log, ch_exports, ch_export_log>>

\* The initial conditions, up to copy2dFieldTo3d(elev_init, eta3d): eta3d
\* holds the initial elevation, the 2D state before any macro step.
AssignInitialConditions ==
    /\ ch_pc = "initial_conditions"
    /\ eta3d' = macro_steps
    /\ ch_pc' = "initial_export"
    /\ UNCHANGED <<notChannel, commrank, ch_fs, ch_fs_before, outputDir, mesh_dt_min,
                   mesh2d_dt_min, channel_dt, M_modesplit, channel_dt_2d, channel_t,
                   channel_i, iExp, channel_next_export_t, ch_stage, macro_steps,
                   ch_log, ch_exports, ch_export_log, ch_exc>>

\* x_file.export(field): the file of the exporter and the field it is given.
Export(name, field) == [exporter |-> name, field |-> field]

\* "Export initial conditions", then the start of the time-stepping loop:
\* t = 0, i = 1, iExp = 1, next_export_t = t + TExport.
ExportInitialConditions ==
    /\ ch_pc = "initial_export"
    /\ ch_exports' = ch_exports \o
          << Export("Velocity2d.pvd", "uv2d_old"),
             Export("Elevation2d.pvd", "eta2d_old"),
             Export("Elevation3d.pvd", "eta3d"),
             Export("Velocity3d.pvd", "uv3d"),
             Export("VertVelo3d.pvd", "w3d"),
             Export("Salinity3d.pvd", "w3d") >>
    /\ channel_t' = 0
    /\ channel_i' = 1
    /\ iExp' = 1
    /\ channel_next_export_t' = 0 + TExport
    /\ ch_pc' = "while"
    /\ UNCHANGED <<notChannel, commrank, ch_fs, ch_fs_before, outputDir, mesh_dt_min,
                   mesh2d_dt_min, channel_dt, M_modesplit, channel_dt_2d, ch_stage,
                   macro_steps, eta3d, ch_log, ch_export_log, ch_exc>>

\* What the loop leaves alone: the set-up and the clock.
channelSetup == <<commrank, ch_fs, ch_fs_before, outputDir, mesh_dt_min,
                  mesh2d_dt_min, channel_dt, M_modesplit, channel_dt_2d>>
channelClock == <<channel_t, channel_i, iExp, channel_next_export_t>>

\* while t <= T + T_epsilon
LoopTest ==
    /\ ch_pc = "while"
    /\ channel_i <= MaxPasses \/ channel_t > channel_T
    /\ IF channel_t <= channel_T
       THEN ch_pc' = "loop" /\ ch_stage' = 1
       ELSE ch_pc' = "done" /\ ch_stage' = 0
    /\ UNCHANGED <<notChannel, channelSetup, channelClock, macro_steps, eta3d,
                   ch_log, ch_exports, ch_export_log, ch_exc>>

\* A call of the loop body: the pass of the loop, the call, the 2D state
\* that eta3d holds, and the substeps of a macro step.
LoopCall(name, eta, substeps) ==
    [i |-> channel_i, call |-> name, eta3d |-> eta, substeps |-> substeps]

\* Statement k of the loop body makes the call.
LoopStatement(k, call) ==
    /\ ch_pc = "loop"
    /\ ch_stage = k
    /\ ch_stage' = k + 1
    /\ ch_log' = Append(ch_log, call)
    /\ UNCHANGED <<notChannel, channelSetup, channelClock, ch_pc, ch_exports,
                   ch_export_log, ch_exc>>

\* eta_n = timeStepper2d.solution_nplushalf.split()[1];
\* copy2dFieldTo3d(eta_n, eta3d)
CopyEtaForPredict ==
    /\ LoopStatement(1, LoopCall("copy2dFieldTo3d", macro_steps, 0))
    /\ eta3d' = macro_steps
    /\ UNCHANGED macro_steps

\* timeStepper_salt3d.predict(t, dt, salt3d, updateForcings3d)
SaltPredict ==
    /\ LoopStatement(2, LoopCall("salt3d.predict", eta3d, 0))
    /\ UNCHANGED <<macro_steps, eta3d>>

\* timeStepper_mom3d.predict(t, dt, uv3d, None)
MomentumPredict ==
    /\ LoopStatement(3, LoopCall("mom3d.predict", eta3d, 0))
    /\ UNCHANGED <<macro_steps, eta3d>>

\* computeVertVelocity(w3d, uv3d, bathymetry3d) after the predicts
VertVelocityAfterPredict ==
    /\ LoopStatement(4, LoopCall("computeVertVelocity", eta3d, 0))
    /\ UNCHANGED <<macro_steps, eta3d>>

\* timeStepper2d.advanceMacroStep(t, dt_2d, M_modesplit, swe2d.solution,
\*                                updateForcings)
AdvanceMacroStep ==
    /\ LoopStatement(5, LoopCall("advanceMacroStep", eta3d, M_modesplit))
    /\ macro_steps' = macro_steps + 1
    /\ UNCHANGED eta3d

\* Variant of CopyEtaForCorrect that leaves eta3d as the predicts used it.
CopyEtaForCorrectSkipped ==
    /\ LoopStatement(6, LoopCall("copy2dFieldTo3d", eta3d, 0))
    /\ UNCHANGED <<macro_steps, eta3d>>

\* eta_nplushalf = timeStepper2d.solution_nplushalf.split()[1];
\* copy2dFieldTo3d(eta_nplushalf, eta3d)
CopyEtaForCorrect ==
    /\ LoopStatement(6, LoopCall("copy2dFieldTo3d", macro_steps, 0))
    /\ eta3d' = macro_steps
    /\ UNCHANGED macro_steps

\* timeStepper_salt3d.correct(t, dt, salt3d, updateForcings3d)
SaltCorrect ==
    /\ LoopStatement(7, LoopCall("salt3d.correct", eta3d, 0))
    /\ UNCHANGED <<macro_steps, eta3d>>

\* timeStepper_mom3d.correct(t, dt, uv3d, None)
MomentumCorrect ==
    /\ LoopStatement(8, LoopCall("mom3d.correct", eta3d, 0))
    /\ UNCHANGED <<macro_steps, eta3d>>

\* computeVertVelocity(w3d, uv3d, bathymetry3d) after the corrects
VertVelocityAfterCorrect ==
    /\ LoopStatement(9, LoopCall("computeVertVelocity", eta3d, 0))
    /\ UNCHANGED <<macro_steps, eta3d>>

\* Variant of WriteDue that waits until t has passed next_export_t.
WriteDueStrict(t, next_t) == t > next_t

\* t >= next_export_t - T_epsilon: t and next_export_t are whole numbers of
\* seconds, which T_epsilon = 1.0e-14 does not tell apart from t >= next_export_t.
WriteDue(t, next_t) == t >= next_t

\* "Write the solution to file" when t has reached next_export_t, then
\* "Move to next time step".
EndOfPass ==
    /\ ch_pc = "loop"
    /\ ch_stage = 10
    /\ IF WriteDue(channel_t, channel_next_export_t)
       THEN /\ ch_export_log' = Append(ch_export_log,
                    [iExp |-> iExp, i |-> channel_i, t |-> channel_t,
                     next_export_t |-> channel_next_export_t])
            /\ ch_exports' = ch_exports \o
                  << Export("Velocity2d.pvd", "uv2d_old"),
                     Export("Elevation2d.pvd", "eta2d_old"),
                     Export("Elevation3d.pvd", "eta3d"),
                     Export("Velocity3d.pvd", "uv3d"),
                     Export("VertVelo3d.pvd", "w3d"),
                     Export("Salinity3d.pvd", "salt3d") >>
            /\ channel_next_export_t' = channel_next_export_t + TExport
            /\ iExp' = iExp + 1
       ELSE UNCHANGED <<ch_exports, ch_export_log, channel_next_export_t, iExp>>
    /\ channel_t' = channel_t + channel_dt
    /\ channel_i' = channel_i + 1
    /\ ch_stage' = 0
    /\ ch_pc' = "while"
    /\ UNCHANGED <<notChannel, channelSetup, macro_steps, eta3d, ch_log, ch_exc>>

ChannelNext ==
    \/ CallCreateDirectory
    \/ ComputeTimeSteps
    \/ AssignInitialConditions
    \/ ExportInitialConditions
    \/ LoopTest
    \/ CopyEtaForPredict
    \/ SaltPredict
    \/ MomentumPredict
    \/ VertVelocityAfterPredict
    \/ AdvanceMacroStep
    \/ CopyEtaForCorrect
    \/ SaltCorrect
    \/ MomentumCorrect
    \/ VertVelocityAfterCorrect
    \/ EndOfPass

(***************************************************************************)
(* test_rossby_wave.py: the checkpoints between run and                    *)
(* compute_error_metrics                                                   *)
(***************************************************************************)

\* The refinement levels and the communicator sizes of the runs.
ExchangeLevels == {1, 12}
ExchangeSizes == {1, 21}

\* os.path.join(os.path.dirname(__file__), 'outputs') in run and in
\* compute_error_metrics.
RunDirectory == <<"dirname(__file__)", "outputs">>
ComputeDirectory == <<"dirname(__file__)", "outputs">>

\* os.path.join(di, fname)
CheckpointPath(di, fname) == [dir |-> di, name |-> fname]

NotLoaded == [r |-> 0, size |-> 0, exc |-> "not called", elev |-> <<>>]

ExchangeInit ==
    /\ xc_files = [q \in {} |-> <<>>]
    /\ xc_last = [k \in ExchangeLevels \X ExchangeSizes |-> <<>>]
    /\ xc_loaded = NotLoaded

\* The state of the checkpoints when another script is the one running.
ExchangeIdle ==
    /\ xc_files = <<>>
    /\ xc_last = <<>>
    /\ xc_loaded = NotLoaded

\* The end of run(r) on a communicator of the given size: the final
\* elevation e is stored, with FILE_CREATE, under the name of r and size.
RunStore(r, size, e) ==
    /\ LET path == CheckpointPath(RunDirectory, Fname(r, size))
       IN  xc_files' = [q \in DOMAIN xc_files \cup {path} |->
                          IF q = path THEN e ELSE xc_files[q]]
    /\ xc_last' = [xc_last EXCEPT ![<<r, size>>] = <<e>>]
    /\ UNCHANGED <<notExchange, xc_loaded>>

\* "Read solution from HDF5" in compute_error_metrics for level r on a
\* communicator of the given size: the elevation of the file, or ValueError
\* when there is no such file.
LoadCheckpoint(r, size) ==
    /\ LET path == CheckpointPath(ComputeDirectory, Fname(r, size))
       IN  xc_loaded' =
               IF path \in DOMAIN xc_files
               THEN [r |-> r, size |-> size, exc |-> "none", elev |-> <<xc_files[path]>>]
               ELSE [r |-> r, size |-> size, exc |-> "ValueError", elev |-> <<>>]
    /\ UNCHANGED <<notExchange, xc_files, xc_last>>

ExchangeNext ==
    \/ \E r \in ExchangeLevels, size \in ExchangeSizes, e \in ElevSamples :
          RunStore(r, size, e)
    \/ \E r \in ExchangeLevels, size \in ExchangeSizes : LoadCheckpoint(r, size)

(***************************************************************************)
(* channel3d.py: the output directory, on every rank                       *)
(***************************************************************************)

\* Nothing recorded yet.
NotYet == "not yet"

DirectoryInit ==
    /\ dr_size \in 1..MaxRanks
    /\ dr_fs \in [FsPaths -> FsKinds]
    /\ dr_pc = [r \in RanksOf(dr_size) |-> "createDirectory"]
    /\ dr_outputDir = [r \in RanksOf(dr_size) |-> None]
    /\ dr_at_return = [r \in RanksOf(dr_size) |-> NotYet]
    /\ dr_at_open = [r \in RanksOf(dr_size) |-> NotYet]
    /\ dr_exc = [r \in RanksOf(dr_size) |-> "none"]

\* The state of the ranks when another script is the one running.
DirectoryIdle ==
    /\ dr_size = 0
    /\ dr_fs = [q \in FsPaths |-> "absent"]
    /\ dr_pc = <<>>
    /\ dr_outputDir = <<>>
    /\ dr_at_return = <<>>
    /\ dr_at_open = <<>>
    /\ dr_exc = <<>>

\* outputDir = createDirectory('outputs') on the process of rank r: only
\* rank 0 touches the file system, and no rank waits for another.
CreateDirectoryOnRank(r) ==
    /\ dr_pc[r] = "createDirectory"
    /\ LET res == createDirectory(r, dr_fs, "outputs")
       IN  /\ dr_fs' = res.fs
           /\ dr_outputDir' = [dr_outputDir EXCEPT ![r] = res.ret]
           /\ dr_exc' = [dr_exc EXCEPT ![r] = res.exc]
           /\ dr_at_return' = [dr_at_return EXCEPT ![r] =
                                IF res.exc = "none" THEN res.fs["outputs"] ELSE @]
           /\ dr_pc' = [dr_pc EXCEPT ![r] =
                          IF res.exc = "none" THEN "bathfile" ELSE "raised"]
    /\ UNCHANGED <<notDirectory, dr_size, dr_at_open>>

\* bathfile = File(os.path.join(outputDir, 'bath.pvd')); bathfile << h_mean
OpenBathFile(r) ==
    /\ dr_pc[r] = "bathfile"
    /\ dr_at_open' = [dr_at_open EXCEPT ![r] = dr_fs["outputs"]]
    /\ dr_pc' = [dr_pc EXCEPT ![r] = "opened"]
    /\ UNCHANGED <<notDirectory, dr_size, dr_fs, dr_outputDir, dr_at_return, dr_exc>>

DirectoryNext ==
    \/ \E r \in RanksOf(dr_size) : CreateDirectoryOnRank(r)
    \/ \E r \in RanksOf(dr_size) : OpenBathFile(r)

(***************************************************************************)
(* Properties of demo_2d_north_sea.py                                      *)
(***************************************************************************)

\* The positions of the script before data_dir is computed.
BeforeDataDir ==
    {"idle", "create_equations", "read_station_data", "add_callback", "data_dir"}

DemoPastCheck == demo_pc \notin BeforeDataDir \cup {"exists"}

\* C1: when the forcing data directory does not exist the script raises
\* IOError, and does so before the TPXO forcing object is built, before
\* load_state and before iterate; no time step is executed in such a run.
C1_MissingDirRaisesFirst ==
    (DemoPastCheck /\ ~PathExists(fs_dirs, data_dir)) =>
        /\ demo_pc = "raised"
        /\ demo_exc = "IOError"
        /\ \A i \in 1..Len(demo_events) :
              demo_events[i] \notin {"TPXOTidalBoundaryForcing", "load_state", "iterate"}
        /\ iteration = 0
        /\ simulation_time = 0

C1_Witness ==
    /\ demo_pc = "raised"
    /\ demo_exc = "IOError"
    /\ ~PathExists(fs_dirs, data_dir)

\* p names the entry "tpxo" of the directory d.
IsTpxoSubdirOf(p, d) ==
    /\ Len(p) >= Len(tpxo)
    /\ SubSeq(p, Len(p) - Len(tpxo) + 1, Len(p)) = tpxo
    /\ LET head == SubSeq(p, 1, Len(p) - Len(tpxo))
       IN  IF d = <<>> \/ d[Len(d)] = "/" THEN head = d
           ELSE head = d \o <<"/">>

\* C2: the forcing data are looked up in the subdirectory 'tpxo' of the
\* directory named by DATA when DATA is set, and in './data/tpxo' exactly when
\* DATA is not set; the path tested for existence and the path passed to
\* TPXOTidalBoundaryForcing are that same path, and no other is consulted.
C2_DataDirLocation ==
    (demo_pc \notin BeforeDataDir) =>
        /\ ("DATA" \in DOMAIN environ) => IsTpxoSubdirOf(data_dir, environ["DATA"])
        /\ ("DATA" \notin DOMAIN environ) =>
               data_dir = <<".", "/", "d", "a", "t", "a", "/", "t", "p", "x", "o">>
        /\ \A i \in 1..Len(consulted) : consulted[i] = data_dir
        /\ DemoPastCheck => Len(consulted) >= 1
        /\ (DemoPastCheck /\ demo_pc \notin {"raised", "forcing"}) => Len(consulted) = 2

C2_Witness ==
    /\ demo_pc = "set_tidal_field"
    /\ "DATA" \in DOMAIN environ
    /\ environ["DATA"] = <<>>
    /\ consulted = <<tpxo, tpxo>>

\* The positions of the demo events with the given name.
DemoEventIndex(name) == { i \in 1..Len(demo_events) : demo_events[i] = name }

\* C11: the tidal field is set at simulation time 0 before the spun-up state
\* is loaded and before iterate starts, and during the simulation every
\* invocation update_forcings(t) by the solver sets the tidal field exactly
\* once, to the time t it was called with.
C11_TidalFieldTimes ==
    /\ (DemoEventIndex("load_state") \cup DemoEventIndex("iterate") # {}) =>
           (Len(tide_times) >= 1 /\ tide_times[1] = 0)
    /\ (demo_pc = "load_state") => tide_times = <<0>>
    /\ (tide_times = <<>>) => forcing_calls = <<>>
    /\ (tide_times # <<>>) => tide_times = <<0>> \o forcing_calls
    /\ (forcing_calls # <<>>) => DemoEventIndex("iterate") # {}

C11_Witness ==
    /\ demo_pc = "done"
    /\ Len(forcing_calls) = 2 * 72
    /\ forcing_calls[1] = 1054
    /\ forcing_calls[2] = 3600
    /\ tide_times[2] = 1054

\* The callback the claim expects for a row of stations_elev.csv.
CallbackOfRow(row) ==
    [fields |-> <<"elev_2d">>,
     x |-> Transform(row.longitude, row.latitude)[1],
     y |-> Transform(row.longitude, row.latitude)[2],
     name |-> row.name]

\* The loop over the tide gauges has ended.
CallbacksAdded ==
    demo_pc \notin {"idle", "create_equations", "read_station_data", "add_callback"}

\* Every add_callback comes after create_equations and before iterate.
CallbacksBetweenCreateAndIterate ==
    /\ Cardinality(DemoEventIndex("add_callback")) = Len(callbacks)
    /\ \A i \in DemoEventIndex("add_callback") :
          /\ \E j \in DemoEventIndex("create_equations") : j < i
          /\ \A j \in DemoEventIndex("iterate") : i < j
    /\ (DemoEventIndex("iterate") # {}) => CallbacksAdded

\* C12 as stated: for each row of stations_elev.csv exactly one
\* TimeSeriesCallback2D on elev_2d is added, carrying that row's name and the
\* UTM coordinates of that row's longitude and latitude; all callbacks are
\* added after create_equations and before iterate.
C12_OneCallbackPerRow ==
    /\ CallbacksAdded =>
          /\ Len(callbacks) = Len(stations_csv)
          /\ \A i \in 1..Len(stations_csv) :
                Cardinality({ k \in 1..Len(callbacks) :
                                callbacks[k] = CallbackOfRow(stations_csv[i]) }) = 1
    /\ CallbacksBetweenCreateAndIterate

\* The last row of stations_elev.csv that carries the name n.
LastRowNamed(n) ==
    stations_csv[CHOOSE i \in 1..Len(stations_csv) :
                    /\ stations_csv[i].name = n
                    /\ \A j \in (i + 1)..Len(stations_csv) : stations_csv[j].name # n]

\* C12 (amended): for each station name of stations_elev.csv exactly one
\* TimeSeriesCallback2D on elev_2d is added, carrying that name and the UTM
\* coordinates of the longitude and latitude of the last row with that name,
\* and no other callback is added; so with pairwise distinct names there is
\* exactly one callback per row.  All callbacks are added after
\* create_equations and before iterate.
C12_OneCallbackPerName ==
    /\ CallbacksAdded =>
          /\ \A i \in 1..Len(stations_csv) :
                Cardinality({ k \in 1..Len(callbacks) :
                                callbacks[k].name = stations_csv[i].name }) = 1
          /\ \A k \in 1..Len(callbacks) :
                /\ \E i \in 1..Len(stations_csv) : callbacks[k].name = stations_csv[i].name
                /\ callbacks[k] = CallbackOfRow(LastRowNamed(callbacks[k].name))
          /\ (\A i, j \in 1..Len(stations_csv) :
                 i # j => stations_csv[i].name # stations_csv[j].name)
                => /\ Len(callbacks) = Len(stations_csv)
                   /\ \A i \in 1..Len(stations_csv) :
                         callbacks[i] = CallbackOfRow(stations_csv[i])
    /\ CallbacksBetweenCreateAndIterate

C12_Witness ==
    /\ demo_pc = "done"
    /\ Len(stations_csv) = 2
    /\ stations_csv[1].name # stations_csv[2].name
    /\ stations_csv[1].latitude # stations_csv[2].latitude
    /\ callbacks = <<CallbackOfRow(stations_csv[1]), CallbackOfRow(stations_csv[2])>>

LogIndex(name) == { i \in 1..Len(rc_log) : rc_log[i][1] = name }

\* The arguments of the log entries with the given name, in order.
LogArgs(name) ==
    LET sel == SelectSeq(rc_log, LAMBDA e : e[1] = name)
    IN  [k \in 1..Len(sel) |-> sel[k][2]]

ConvergenceChecked == LogIndex("assert") # {}

\* Both entries of the slope of metric m at index i exist.
SlopeDefined(m, i) == Len(metrics[m]) >= i + 1

AllSlopesHold ==
    \A m \in MetricNames : \A i \in 1..(Len(ref_list) - 1) :
        SlopeDefined(m, i) /\ SlopeOfOK(metrics, m, i)

SomeSlopeFails ==
    \E m \in MetricNames : \E i \in 1..(Len(ref_list) - 1) :
        SlopeDefined(m, i) /\ ~SlopeOfOK(metrics, m, i)

\* C3: run_convergence passes only when, for every index i in
\* 1..len(ref_list)-1, rms[i-1]/rms[i] > 0.99 and metric[i]/metric[i-1] > 0.99
\* for h+, h-, c+, c-; if one of these ratios is <= 0.99 an AssertionError is
\* raised, and if all hold the function returns without assertion error.
C3_ConvergenceAssertions ==
    ConvergenceChecked =>
        /\ (rc_pc = "done") => AllSlopesHold
        /\ SomeSlopeFails => rc_exc = "AssertionError"
        /\ AllSlopesHold => (rc_pc = "done" /\ rc_exc = "none")

\* C7: with solve=True run(r) is called exactly once for each r of ref_list,
\* in list order, and all calls complete before compute_error_metrics is
\* called; with solve=False run is never called; the metrics are written to
\* data/Thetis.json after compute_error_metrics returns and before any
\* convergence assertion is evaluated.
C7_RunComputeJsonAssertOrder ==
    /\ ~solve => LogIndex("run") = {}
    /\ Cardinality(LogIndex("compute")) <= 1
    /\ \A c \in LogIndex("compute") :
          /\ solve => LogArgs("run") = ref_list
          /\ LogArgs("store") = LogArgs("run")
          /\ \A i \in LogIndex("run") \cup LogIndex("store") : i < c
    /\ \A j \in LogIndex("json") :
          /\ \E d \in LogIndex("compute_done") : d < j
          /\ thetis_json = <<metrics>>
    /\ \A a \in LogIndex("assert") : \E j \in LogIndex("json") : j < a
    /\ (rc_pc = "done") => ConvergenceChecked

C7_Witness ==
    /\ rc_pc = "done"
    /\ solve
    /\ ref_list = <<12, 24, 48>>
    /\ LogArgs("run") = <<12, 24, 48>>

\* C8: compute_error_metrics maps 'dg-dg' and 'rt-dg' to 'Discontinuous
\* Lagrange' with the given degree, 'dg-cg' to 'Lagrange' with degree + 1, and
\* for every other element_family, the absent one included, raises ValueError
\* before any mesh is built or checkpoint is read.
C8_FamilySelection ==
    (LogIndex("compute") # {}) =>
        LET family == OptionsGet(options, "element_family")
        IN  /\ family \in {"dg-dg", "rt-dg"} =>
                  (fs_family = "Discontinuous Lagrange"
                     /\ fs_degree = options.polynomial_degree)
            /\ family = "dg-cg" =>
                  (fs_family = "Lagrange" /\ fs_degree = options.polynomial_degree + 1)
            /\ family \notin {"dg-dg", "rt-dg", "dg-cg"} =>
                  /\ rc_pc = "raised"
                  /\ rc_exc = "ValueError"
                  /\ LogIndex("ref_mesh") \cup LogIndex("mesh") \cup LogIndex("load") = {}

\* The levels of ref_list that compute_error_metrics' loop has passed.
LevelsPassed == SubSeq(ref_list, 1, i_lvl - 1)

CheckpointFound(r) == Fname(r, comm_size) \in DOMAIN outputs

\* C9: when the checkpoint of level r cannot be loaded a warning is printed,
\* the level is skipped without appending to any of h+, h-, c+, c-, rms, and
\* every later level of ref_list is still processed in order.
C9_MissingLevelSkipped ==
    (rc_pc # "idle") =>
        LET found == SelectSeq(LevelsPassed, CheckpointFound)
            missing == SelectSeq(LevelsPassed, LAMBDA r : ~CheckpointFound(r))
        IN  /\ \A m \in MetricNames :
                  /\ Len(metrics[m]) = Len(found)
                  /\ \A k \in 1..Len(found) :
                        metrics[m][k] = outputs[Fname(found[k], comm_size)][m]
            /\ LogArgs("warning") = missing
            /\ LogArgs("load") = LevelsPassed
            /\ (LogIndex("compute_done") # {}) => LogArgs("load") = ref_list

C9_Witness ==
    /\ rc_pc = "json"
    /\ ref_list = <<12, 24, 48>>
    /\ LogArgs("warning") = <<24>>
    /\ LogArgs("load") = <<12, 24, 48>>
    /\ Len(metrics["rms"]) = 2

\* C10: the reference elevation of compute_error_metrics is the asymptotic
\* expansion with the same order, the same time argument 0.0 and the same
\* amplitude 0.395 as the initial elevation assigned in run, and run sets
\* simulation_end_time to 120.
C10_ReferenceIsInitialCondition ==
    LET elev == SelectSeq(expansions, LAMBDA c : c.fn = "elev")
    IN  /\ \A i \in 1..Len(elev) :
              /\ elev[i].time = 0
              /\ elev[i].amplitude = 395
              /\ elev[i].order = options.expansion_order
        /\ \A i, j \in 1..Len(elev) :
              (elev[i].site = "run" /\ elev[j].site = "compute") =>
                  /\ elev[i].order = elev[j].order
                  /\ elev[i].time = elev[j].time
                  /\ elev[i].amplitude = elev[j].amplitude
        /\ \A i \in LogIndex("iterate") : rc_log[i][2] = 120

C10_Witness ==
    /\ \E i \in 1..Len(expansions) :
          expansions[i].site = "run" /\ expansions[i].fn = "elev"
    /\ \E j \in 1..Len(expansions) :
          expansions[j].site = "compute" /\ expansions[j].fn = "elev"
    /\ LogIndex("iterate") # {}
    /\ rc_pc = "levels"

\* compute_error_metrics has returned its dictionary.
MetricsReturned == rc_pc \in {"json", "assert", "done"} \/ LogIndex("compute_done") # {}

\* C22: the metric lists that compute_error_metrics returns stay aligned
\* with the refinement levels: h+, h-, c+, c- and rms all have the length of
\* ref_list, as dx and dt have, the entry at index i of every metric is the
\* metric of the elevation stored for ref_list[i], and so every index in
\* 1..len(ref_list)-1 is valid in run_convergence.
C22_MetricsAligned ==
    MetricsReturned =>
        /\ Len(metrics["dx"]) = Len(ref_list)
        /\ Len(metrics["dt"]) = Len(ref_list)
        /\ \A m \in MetricNames :
              /\ Len(metrics[m]) = Len(ref_list)
              /\ \A i \in 1..Len(metrics[m]) :
                    /\ CheckpointFound(ref_list[i])
                    /\ metrics[m][i] =
                          ErrorMetricsOf(outputs[Fname(ref_list[i], comm_size)])[m]
        /\ rc_exc # "IndexError"

(***************************************************************************)
(* Properties of the 2D-3D copy operations                                 *)
(***************************************************************************)

\* The horizontal components: those a 2D field of the pair has.
HorizontalComps == DOMAIN f2d[1]

\* The lowest and the highest node of a column.
BottomLevel == CHOOSE l \in Levels : \A k \in Levels : zcoord(l) <= zcoord(k)
SurfaceLevel == CHOOSE l \in Levels : \A k \in Levels : zcoord(l) >= zcoord(k)

\* C4: after copy2dFieldTo3d(f2d, f3d) every node of the 3D field, in every
\* layer of every column, holds the value of f2d at the column's horizontal
\* node (horizontal components), whatever f3d held before; f2d is unchanged.
C4_Copy2dFieldTo3d ==
    (last_call.fn = "copy2dFieldTo3d") =>
        /\ \A c \in Cols : \A l \in Levels : \A j \in HorizontalComps :
              f3d[c][l][j] = f2d_before[c][j]
        /\ f2d = f2d_before

C4_Witness ==
    /\ last_call.fn = "copy2dFieldTo3d"
    /\ Len(f2d[1]) = 2
    /\ \A c \in Cols : \A l \in Levels : f3d[c][l][1] # f3d_before[c][l][1]
    /\ f2d[1] # f2d[2]

\* C5: after copy3dFieldTo2d(f3d, f2d, useBottomValue=b) every 2D node holds
\* the value of f3d at the bottom-most node of its column when b is True and
\* at the surface node when b is False (horizontal components); the previous
\* content of f2d has no influence and f3d is unchanged.
C5_Copy3dFieldTo2d ==
    (last_call.fn = "copy3dFieldTo2d") =>
        /\ \A c \in Cols : \A j \in HorizontalComps :
              f2d[c][j] = f3d_before[c][IF last_call.useBottomValue
                                        THEN BottomLevel ELSE SurfaceLevel][j]
        /\ DOMAIN f2d = DOMAIN f2d_before
        /\ f3d = f3d_before

C5_Witness ==
    /\ last_call = [fn |-> "copy3dFieldTo2d", useBottomValue |-> TRUE]
    /\ \A c \in Cols : f3d[c][BottomLevel][1] # f3d[c][SurfaceLevel][1]
    /\ \A c \in Cols : f2d[c][1] # f2d_before[c][1]

\* The horizontal components of g3 do not vary along the vertical.
VerticallyUniform(g3) ==
    \A c \in Cols : \A l, k \in Levels : \A j \in HorizontalComps :
        g3[c][l][j] = g3[c][k][j]

\* C6: for a 3D field that does not vary along the vertical within each
\* column, copy3dFieldTo2d yields the same 2D field for useBottomValue=True
\* and useBottomValue=False, and that field carries the column values.
C6_Copy3dFieldTo2dUniform ==
    (ops_pc = "ready" /\ VerticallyUniform(f3d)) =>
        /\ copy3dFieldTo2d(f3d, f2d, TRUE) = copy3dFieldTo2d(f3d, f2d, FALSE)
        /\ (last_call.fn = "copy3dFieldTo2d") =>
              \A c \in Cols : \A l \in Levels : \A j \in HorizontalComps :
                  f2d[c][j] = f3d[c][l][j]

C6_Witness ==
    /\ last_call.fn = "copy3dFieldTo2d"
    /\ VerticallyUniform(f3d)
    /\ f3d[1][1][1] # f3d[2][1][1]
    /\ f2d # f2d_before

(***************************************************************************)
(* Properties of test_implicit_friction_parabolic.py                       *)
(***************************************************************************)

\* The four bounds, on values in the units of the model.
WBound(st) == ~st.w_max.nan /\ st.w_max.v < 10
VBound(st) == ~st.v_max.nan /\ st.v_max.v < 10
UMinBound(st) == ~st.u_min.nan /\ st.u_min.v > 450 /\ st.u_min.v < 550
UMaxBound(st) == ~st.u_max.nan /\ st.u_max.v > 850 /\ st.u_max.v < 950

\* The assertions have been evaluated.
VelocityChecked == fr_pc \in {"done", "raised"} /\ "unset" \notin DOMAIN uvw

\* C15: with do_assert true the test passes only if, after the
\* round(t_end/dt) = 10 steps, max|w| < 1e-6, max|v| < 1e-6,
\* |min(u) - 0.5| < 0.05 and |max(u) - 0.9| < 0.05 all hold; a violation of
\* any one of them raises AssertionError.
C15_FrictionBounds ==
    /\ n_steps = 10
    /\ (fr_pc \in {"project", "assert"} \/ VelocityChecked) => (do_assert /\ fr_it = 10)
    /\ (do_assert /\ fr_pc = "done") =>
          /\ VelocityChecked
          /\ fr_it = 10
          /\ WBound(uvw) /\ VBound(uvw) /\ UMinBound(uvw) /\ UMaxBound(uvw)
    /\ (VelocityChecked
          /\ ~(WBound(uvw) /\ VBound(uvw) /\ UMinBound(uvw) /\ UMaxBound(uvw))) =>
          (fr_pc = "raised" /\ fr_exc = "AssertionError")

C15_Witness ==
    /\ fr_pc = "raised"
    /\ fr_exc = "AssertionError"
    /\ fr_it = 10
    /\ WBound(uvw) /\ VBound(uvw) /\ UMinBound(uvw)
    /\ uvw.u_max = Float(950)

(***************************************************************************)
(* Properties of channel3d.py                                              *)
(***************************************************************************)

\* The calls of one pass of the LF-AM3 loop, in the order of the claim.
LFAM3Order ==
    << "copy2dFieldTo3d", "salt3d.predict", "mom3d.predict", "computeVertVelocity",
       "advanceMacroStep",
       "copy2dFieldTo3d", "salt3d.correct", "mom3d.correct", "computeVertVelocity" >>

\* The calls that pass k of the loop has made.
PassLog(k) == SelectSeq(ch_log, LAMBDA e : e.i = k)

\* C16: every pass of the time loop makes the LF-AM3 calls in this order:
\* copy of the 2D half-step elevation to eta3d, salt predict, momentum
\* predict, vertical velocity, the 2D macro step with M_modesplit substeps,
\* copy of the new 2D half-step elevation to eta3d, salt correct, momentum
\* correct, vertical velocity; the 2D mode is advanced after both predicts
\* and before both corrects, and the corrects use an eta3d copied after the
\* macro step of their own pass.
C16_LFAM3Order ==
    /\ \A a, b \in 1..Len(ch_log) : a < b => ch_log[a].i <= ch_log[b].i
    /\ \A k \in 1..channel_i :
          LET pl == PassLog(k)
          IN  /\ Len(pl) <= Len(LFAM3Order)
              /\ (k < channel_i) => Len(pl) = Len(LFAM3Order)
              /\ \A j \in 1..Len(pl) :
                    /\ pl[j].call = LFAM3Order[j]
                    /\ (pl[j].call = "advanceMacroStep") => pl[j].substeps = M_modesplit
                    /\ (pl[j].call \in {"salt3d.predict", "mom3d.predict"}) =>
                          (j < 5 /\ pl[j].eta3d = k - 1)
                    /\ (pl[j].call \in {"salt3d.correct", "mom3d.correct"}) =>
                          (j > 5 /\ pl[j].eta3d = k)
    /\ (ch_pc \in {"while", "done"}) => macro_steps = channel_i - 1

C16_Witness ==
    /\ ch_pc = "done"
    /\ Len(ch_log) = 4 * 9
    /\ ch_log[3].eta3d = 0
    /\ ch_log[8].eta3d = 1
    /\ ch_log[36].i = 4

\* C17: every export made through the 'Salinity' exporter (Salinity3d.pvd),
\* the export of the initial conditions and every export inside the time
\* loop, writes the salinity field salt3d.
C17_SalinityExports ==
    \A j \in 1..Len(ch_exports) :
        (ch_exports[j].exporter = "Salinity3d.pvd") => ch_exports[j].field = "salt3d"

\* createDirectory has been called.
DirectoryCalled == ch_pc \notin {"idle", "createDirectory"}

\* C18: on rank 0 createDirectory(path) raises Exception when path exists
\* and is not a directory, creates the directory when path does not exist
\* and changes nothing when path is a directory; in every case without error
\* it returns path, and a second call has no further effect.
C18_CreateDirectory ==
    (DirectoryCalled /\ commrank = 0) =>
        /\ (ch_fs_before["outputs"] = "file") =>
              (ch_pc = "raised" /\ ch_exc = "Exception" /\ ch_fs = ch_fs_before)
        /\ (ch_fs_before["outputs"] = "absent") =>
              /\ ch_exc # "Exception"
              /\ ch_fs = [ch_fs_before EXCEPT !["outputs"] = "dir"]
        /\ (ch_fs_before["outputs"] = "dir") =>
              (ch_exc # "Exception" /\ ch_fs = ch_fs_before)
        /\ (ch_exc # "Exception") =>
              /\ outputDir = "outputs"
              /\ LET again == createDirectory(commrank, ch_fs, "outputs")
                 IN  /\ again.exc = "none"
                     /\ again.fs = ch_fs
                     /\ again.ret = outputDir

C18_Witness ==
    /\ ch_pc = "time_steps"
    /\ commrank = 0
    /\ ch_fs_before["outputs"] = "absent"
    /\ ch_fs["outputs"] = "dir"
    /\ outputDir = "outputs"

\* Lines 142-146 have run.
TimeStepsComputed == ch_pc \notin {"idle", "createDirectory", "time_steps"} /\ ch_exc # "Exception"

\* The script is at the loop: at its test or in its body.
AtLoop == ch_pc \in {"while", "loop"}

\* C23: the time-stepping loop always terminates: for every positive mesh
\* time-step estimate the 3D step dt = floor(min(mesh_dt)/20) is strictly
\* positive and M_modesplit >= 1, t = (i-1)*dt holds at the top of every
\* iteration, and t grows by dt per iteration only until t > T + T_epsilon,
\* so that the loop makes at most T/dt + 1 passes.
C23_LoopTerminates ==
    /\ (TimeStepsComputed /\ mesh_dt_min > 0 /\ mesh2d_dt_min > 0) =>
          /\ channel_dt > 0
          /\ M_modesplit >= 1
          /\ ch_exc = "none"
    /\ AtLoop =>
          /\ channel_t = (channel_i - 1) * channel_dt
          /\ channel_t <= channel_T + channel_dt
    /\ (ch_pc = "done") => channel_t > channel_T

\* C25: the mode-splitting ratio is consistent: with
\* M_modesplit = ceil(dt / dt_2d_cfl) and the adjusted dt_2d = dt / M_modesplit,
\* M_modesplit is a positive integer, M_modesplit * dt_2d equals the 3D step
\* dt, the adjusted dt_2d never exceeds dt_2d_cfl = min(mesh2d_dt)/20, and
\* the macro step is advanced with these M_modesplit substeps.
C25_ModeSplitConsistent ==
    /\ TimeStepsComputed =>
          /\ M_modesplit >= 1
          /\ ch_exc = "none"
          /\ channel_dt_2d.den > 0
          /\ M_modesplit * channel_dt_2d.num = channel_dt * channel_dt_2d.den
          /\ 20 * channel_dt_2d.num <= mesh2d_dt_min * channel_dt_2d.den
          /\ (M_modesplit - 1) * mesh2d_dt_min < 20 * channel_dt
    /\ \A k \in 1..Len(ch_log) :
          (ch_log[k].call = "advanceMacroStep") =>
              (ch_log[k].substeps = M_modesplit /\ M_modesplit >= 1)

\* The passes of the loop that are complete, and the exports made before
\* pass j.
CompletedPasses == 1..(channel_i - 1)
ExportsBefore(j) == { k \in 1..Len(ch_export_log) : ch_export_log[k].i < j }
ExportsIn(j) == { k \in 1..Len(ch_export_log) : ch_export_log[k].i = j }

\* The bookkeeping of the exports: at the top of every iteration
\* next_export_t = iExp * TExport and i = 1 + the completed iterations; an
\* iteration exports if and only if its t >= next_export_t, at most once;
\* an export raises iExp by 1 and next_export_t by TExport.
ExportBookkeeping ==
    /\ AtLoop =>
          /\ channel_next_export_t = iExp * TExport
          /\ iExp = 1 + Len(ch_export_log)
          /\ channel_t = (channel_i - 1) * channel_dt
    /\ (ch_pc = "while" \/ (ch_pc = "loop" /\ ch_stage <= 5)) =>
          channel_i = 1 + macro_steps
    /\ AtLoop =>
          \A j \in CompletedPasses :
              /\ Cardinality(ExportsIn(j)) <= 1
              /\ (ExportsIn(j) # {}) <=>
                    ((j - 1) * channel_dt
                        >= (1 + Cardinality(ExportsBefore(j))) * TExport)
    /\ \A k \in 1..Len(ch_export_log) :
          /\ ch_export_log[k].iExp = k
          /\ ch_export_log[k].next_export_t = k * TExport
          /\ ch_export_log[k].t = (ch_export_log[k].i - 1) * channel_dt
          /\ ch_export_log[k].t >= ch_export_log[k].next_export_t

\* Two consecutive exports are at least the given time apart.
ExportsApart(gap) ==
    \A k \in 1..(Len(ch_export_log) - 1) :
        ch_export_log[k + 1].t - ch_export_log[k].t >= gap

\* C26 as stated: the bookkeeping of the exports holds, and for every dt > 0
\* and TExport > 0 two consecutive exports are at least TExport of simulated
\* time apart.
C26_ExportsTExportApart ==
    /\ ExportBookkeeping
    /\ (channel_dt > 0 /\ TExport > 0) => ExportsApart(TExport)

\* C26, amended: the bookkeeping of the exports holds; two consecutive
\* exports are made in different iterations and so are at least dt apart,
\* and they are at least TExport apart when dt >= TExport or dt divides
\* TExport.
C26_ExportBookkeeping ==
    /\ ExportBookkeeping
    /\ (channel_dt > 0) =>
          /\ ExportsApart(channel_dt)
          /\ (channel_dt >= TExport \/ TExport % channel_dt = 0) =>
                ExportsApart(TExport)

C26_Witness ==
    /\ channel_dt = 50
    /\ Len(ch_export_log) = 3
    /\ ch_export_log[2].t = 200
    /\ ch_export_log[3].t = 250
    /\ ch_export_log[3].next_export_t = 240
    /\ iExp = 4

(***************************************************************************)
(* Properties of the asymptotic expansions                                 *)
(***************************************************************************)

\* The outcome the claim gives for an expansion with the given zeroth-order
\* and first-order terms.
ExpansionAsClaimed(res, zeroth, first) ==
    /\ (ex_order = 0) =>
          /\ res.exc = "none"
          /\ res.c = 0 - 1000000000
          /\ res.terms = zeroth
    /\ (ex_order = 1) =>
          /\ res.exc = "none"
          /\ res.c = 0 - SpeedScale - 1185 * ex_amplitude * ex_amplitude
          /\ res.terms = zeroth \cup first
          /\ first # {} /\ first \cap zeroth = {}
    /\ (ex_order \notin {0, 1}) => res.exc = "AssertionError"

\* C19: both expansions accept only order 0 or 1: order 0 uses the speed
\* -1/3 and returns the zeroth-order terms alone, order 1 uses the speed
\* -1/3 - 0.395*B^2 and returns zeroth-order plus first-order terms, any
\* other order fails with AssertionError; for equal order, time and
\* amplitude both functions use the same speed.
C19_ExpansionOrder ==
    /\ (ex_uv # NotCalled) => ExpansionAsClaimed(ex_uv, UvZerothTerms, UvFirstTerms)
    /\ (ex_elev # NotCalled) =>
          ExpansionAsClaimed(ex_elev, ElevZerothTerms, ElevFirstTerms)
    /\ (ex_uv # NotCalled /\ ex_elev # NotCalled) =>
          (ex_uv.exc = ex_elev.exc /\ ex_uv.c = ex_elev.c)

C19_Witness ==
    /\ ex_order = 1
    /\ ex_amplitude = 395
    /\ ex_time = 120
    /\ ex_uv.exc = "none"
    /\ ex_elev.exc = "none"
    /\ ex_uv.c = 0 - 1184889625
    /\ ex_elev.c = ex_uv.c
    /\ Cardinality(ex_elev.terms) = 3

\* n! and 2^n modulo CoefficientModulus.
RECURSIVE FactorialMod(_)
FactorialMod(n) == IF n = 0 THEN 1 ELSE Reduce(n * FactorialMod(n - 1))

RECURSIVE PowerOfTwoMod(_)
PowerOfTwoMod(n) == IF n = 0 THEN 1 ELSE Reduce(2 * PowerOfTwoMod(n - 1))

\* p is the physicists' Hermite polynomial H_n by its closed form: the
\* coefficient of y^(n-2m) is (-1)^m n! 2^(n-2m) / (m! (n-2m)!), every other
\* coefficient is 0.
IsHermite(p, n) ==
    \A k \in 0..(HermiteCount - 1) :
        IF k <= n /\ (n - k) % 2 = 0
        THEN LET m == (n - k) \div 2
             IN  Reduce(Reduce(p[k] * FactorialMod(m)) * FactorialMod(k))
                   = Reduce((IF m % 2 = 0 THEN 1 ELSE 0 - 1)
                            * Reduce(FactorialMod(n) * PowerOfTwoMod(k)))
        ELSE p[k] = 0

\* The list starts with 1 and 2y and every later entry n is
\* 2y*H_(n-1) - 2(n-1)*H_(n-2); entry n is H_n, for n in 0..27.
IsHermiteList(polynomials) ==
    /\ Len(polynomials) = 28
    /\ polynomials[1] = PolyConstant(1)
    /\ polynomials[2] = PolyTimes2y(PolyConstant(1))
    /\ \A n \in 2..27 :
          polynomials[n + 1] =
              PolyMinus(PolyTimes2y(polynomials[n]),
                        PolyScale(2 * (n - 1), polynomials[n - 1]))
    /\ \A n \in 0..27 : IsHermite(polynomials[n + 1], n)

\* C21: the list of Hermite polynomials that asymptotic_expansion_uv and
\* asymptotic_expansion_elev build on the first-order path has exactly 28
\* entries, its entry n is the physicists' Hermite polynomial H_n(y) for
\* n in 0..27 (H_0 = 1, H_1 = 2y, H_n = 2y*H_(n-1) - 2(n-1)*H_(n-2)), and
\* the two functions build the identical list.
C21_HermitePolynomials ==
    /\ (ex_uv.exc = "none" /\ ex_order # 0) => IsHermiteList(ex_uv.polynomials)
    /\ (ex_elev.exc = "none" /\ ex_order # 0) => IsHermiteList(ex_elev.polynomials)
    /\ (ex_uv # NotCalled /\ ex_elev # NotCalled) =>
          ex_uv.polynomials = ex_elev.polynomials

C21_Witness ==
    /\ ex_order = 1
    /\ ex_uv.exc = "none"
    /\ ex_elev.exc = "none"
    /\ Len(ex_uv.polynomials) = 28
    /\ Len(ex_elev.polynomials) = 28
    /\ ex_elev.polynomials[4][3] = 8
    /\ ex_elev.polynomials[4][1] = CoefficientModulus - 12
    /\ ex_uv.polynomials[28][27] = PowerOfTwoMod(27)

(***************************************************************************)
(* Properties of the peak search                                           *)
(***************************************************************************)

\* The ranks j with ownership_range[j] <= idx < ownership_range[j+1].
RanksOwning(idx) ==
    { j \in RanksOf(pk_size) :
        ownership_range[j] <= idx /\ idx < ownership_range[j + 1] }

\* C20: for each of the two peak indices exactly one rank j in
\* 0..comm.size-1 has ownership_range[j] <= index < ownership_range[j+1], so
\* rank_with_n_peak and rank_with_s_peak are always assigned; only the owning
\* rank reads the peak's x-coordinate, and after the broadcasts every rank
\* holds the same x_n and the same x_s.
C20_PeakOwnership ==
    (pk_size > 0) =>
        /\ Cardinality(RanksOwning(i_n)) = 1
        /\ Cardinality(RanksOwning(i_s)) = 1
        /\ \A r \in RanksOf(pk_size) :
              /\ pk_exc[r] = "none"
              /\ (pk_pc[r] # "owners") =>
                    /\ rank_with_n_peak[r] \in RanksOwning(i_n)
                    /\ rank_with_s_peak[r] \in RanksOwning(i_s)
              /\ (i_n \in pk_reads[r]) => r \in RanksOwning(i_n)
              /\ (i_s \in pk_reads[r]) => r \in RanksOwning(i_s)
              /\ pk_reads[r] \subseteq {i_n, i_s}
              /\ (pk_pc[r] \notin {"owners", "read"}) =>
                    /\ (r \in RanksOwning(i_n)) => i_n \in pk_reads[r]
                    /\ (r \in RanksOwning(i_s)) => i_s \in pk_reads[r]
              /\ (pk_pc[r] \in {"bcast_s", "done"}) => x_n[r] = <<XAt(i_n)>>
              /\ (pk_pc[r] = "done") => x_s[r] = <<XAt(i_s)>>
        /\ \A r, q \in RanksOf(pk_size) :
              /\ (pk_pc[r] \in {"bcast_s", "done"}) => x_n[r] = x_n[q]
              /\ (pk_pc[r] = "done") => x_s[r] = x_s[q]

C20_Witness ==
    /\ pk_size = 3
    /\ \A r \in RanksOf(pk_size) : pk_pc[r] = "done"
    /\ ownership_range[1] = ownership_range[2]
    /\ i_n = ownership_range[2]
    /\ rank_with_n_peak[0] = 2
    /\ rank_with_s_peak[0] = 0
    /\ x_n[0] = <<XAt(i_n)>>
    /\ x_n[0] # x_s[0]

(***************************************************************************)
(* Properties of the output directory                                      *)
(***************************************************************************)

\* C24: when createDirectory(path) returns on any MPI rank, path exists as
\* a directory; no rank reaches the code that opens files under the output
\* directory while the directory does not yet exist; and when rank 0 raises
\* because a file of the same name exists, no other rank proceeds past
\* createDirectory.
C24_DirectoryBeforeUse ==
    \A r \in RanksOf(dr_size) :
        /\ dr_at_return[r] \in {NotYet, "dir"}
        /\ dr_at_open[r] \in {NotYet, "dir"}
        /\ (dr_pc[0] = "raised" /\ r # 0) => dr_pc[r] = "createDirectory"

(***************************************************************************)
(* Properties of the checkpoint exchange                                   *)
(***************************************************************************)

\* C27: run(r) and compute_error_metrics exchange results through a
\* checkpoint named '<r>_<comm.size>' in the directory 'outputs' next to the
\* test file: for every level r and communicator size s the elevation that
\* compute_error_metrics loads for (r, s) is the one the most recent run(r)
\* with the same s stored, a later run(r) replacing the earlier file, and
\* what was stored under another r or another s is never loaded for (r, s).
\* Every file is in 'outputs', is named after one level and one size, and
\* holds what the last run of that level and size stored.
FilesAreLastStores ==
    /\ \A q \in DOMAIN xc_files :
          /\ q.dir = <<"dirname(__file__)", "outputs">>
          /\ \E r \in ExchangeLevels, size \in ExchangeSizes :
                /\ q.name = FormatD(r) \o <<"_">> \o FormatD(size)
                /\ xc_last[<<r, size>>] = <<xc_files[q]>>
    /\ Cardinality(DOMAIN xc_files)
          = Cardinality({ k \in DOMAIN xc_last : xc_last[k] # <<>> })

\* A load for (r, size) returns what the last run of r and size stored, and
\* raises ValueError exactly when there was no such run.
LoadIsLastStore ==
    (xc_loaded' # xc_loaded) =>
        /\ UNCHANGED xc_last
        /\ xc_loaded'.elev = xc_last[<<xc_loaded'.r, xc_loaded'.size>>]
        /\ (xc_loaded'.exc = "ValueError") <=> (xc_loaded'.elev = <<>>)

C27_CheckpointExchange == []FilesAreLastStores /\ [][LoadIsLastStore]_exchangeVars

C27_Witness ==
    /\ xc_loaded.r = 12
    /\ xc_loaded.size = 1
    /\ xc_loaded.exc = "none"
    /\ xc_last[<<12, 1>>] = xc_loaded.elev
    /\ xc_last[<<1, 21>>] # <<>>
    /\ xc_last[<<1, 21>>] # xc_last[<<12, 1>>]
    /\ xc_last[<<12, 21>>] # <<>>
    /\ xc_last[<<12, 21>>] # xc_last[<<12, 1>>]

vars == <<demoVars, rossbyVars, opsVars, frictionVars, channelVars, expansionVars,
          peakVars, directoryVars, exchangeVars>>

\* The demo runs, the other scripts do not.
InitDemo ==
    DemoInit /\ RossbyIdle /\ OpsIdle /\ FrictionIdle /\ ChannelIdle /\ ExpansionIdle
    /\ PeaksIdle
    /\ DirectoryIdle
    /\ ExchangeIdle

SpecDemo == InitDemo /\ [][DemoNext]_vars

\* run_convergence runs, the other scripts do not.
InitRossby ==
    DemoIdle /\ RossbyInit /\ OpsIdle /\ FrictionIdle /\ ChannelIdle /\ ExpansionIdle
    /\ PeaksIdle
    /\ DirectoryIdle
    /\ ExchangeIdle

SpecRossby == InitRossby /\ [][RossbyNext]_vars

\* The operations test runs, the other scripts do not.
InitOps ==
    DemoIdle /\ RossbyIdle /\ OpsInit /\ FrictionIdle /\ ChannelIdle /\ ExpansionIdle
    /\ PeaksIdle
    /\ DirectoryIdle
    /\ ExchangeIdle

SpecOps == InitOps /\ [][OpsNext]_vars

\* The friction test runs, the other scripts do not.
InitFriction ==
    DemoIdle /\ RossbyIdle /\ OpsIdle /\ FrictionInit /\ ChannelIdle /\ ExpansionIdle
    /\ PeaksIdle
    /\ DirectoryIdle
    /\ ExchangeIdle

SpecFriction == InitFriction /\ [][FrictionNext]_vars

\* channel3d.py runs, the other scripts do not.
InitChannel ==
    DemoIdle /\ RossbyIdle /\ OpsIdle /\ FrictionIdle /\ ChannelInit /\ ExpansionIdle
    /\ PeaksIdle
    /\ DirectoryIdle
    /\ ExchangeIdle

SpecChannel == InitChannel /\ [][ChannelNext]_vars

\* The expansions are called, the scripts do not run.
InitExpansion ==
    DemoIdle /\ RossbyIdle /\ OpsIdle /\ FrictionIdle /\ ChannelIdle /\ ExpansionInit
    /\ PeaksIdle
    /\ DirectoryIdle
    /\ ExchangeIdle

SpecExpansion == InitExpansion /\ [][ExpansionNext]_vars

\* The peak search runs on every rank, the scripts do not run.
InitPeaks ==
    DemoIdle /\ RossbyIdle /\ OpsIdle /\ FrictionIdle /\ ChannelIdle /\ ExpansionIdle
    /\ PeaksInit
    /\ DirectoryIdle
    /\ ExchangeIdle

SpecPeaks == InitPeaks /\ [][PeaksNext]_vars

\* The ranks of channel3d.py make their output directory, the scripts do
\* not run.
InitDirectory ==
    DemoIdle /\ RossbyIdle /\ OpsIdle /\ FrictionIdle /\ ChannelIdle /\ ExpansionIdle
    /\ PeaksIdle
    /\ DirectoryInit
    /\ ExchangeIdle

SpecDirectory == InitDirectory /\ [][DirectoryNext]_vars

\* Runs store checkpoints and compute_error_metrics loads them, the scripts
\* do not run.
InitExchange ==
    DemoIdle /\ RossbyIdle /\ OpsIdle /\ FrictionIdle /\ ChannelIdle /\ ExpansionIdle
    /\ PeaksIdle
    /\ DirectoryIdle
    /\ ExchangeInit

SpecExchange == InitExchange /\ [][ExchangeNext]_vars

====
